-------------------------- MODULE SelfUpdateProofs --------------------------
(***************************************************************************)
(* Proofs about SelfUpdate: a bridge comes back as the version it promised, *)
(* a runtime is told "updated" only of a version that ran or was proven to  *)
(* run, and no update pulls the bridge back, for any runtimes, versions,    *)
(* faults and bounds.                                                       *)
(***************************************************************************)
EXTENDS SelfUpdate, TLAPS

\* Versions are positive, and "gone" is no runtime.
Given ==
  /\ Own \in [Runtimes -> Nat \ {0}] /\ FirstVersion \in Nat \ {0}
  /\ FirstSelfUpdate \in Nat /\ MaxAsks \in Nat /\ MaxFaults \in Nat
  /\ ReadOnly \subseteq Runtimes
  /\ Gone \notin Runtimes

Frames == [kind : {"result"}, req : 1..MaxAsks, outcome : Outcomes]
          \cup [kind : {"snapshot"}, version : Versions]
Links == [up : BOOLEAN, capable : BOOLEAN, version : Versions \cup {Nothing}]
Jobs == [outcome : Outcomes, disconnected : BOOLEAN, late : BOOLEAN, sent : BOOLEAN]
Tasks == [version : Versions \cup {Nothing}, asker : Runtimes \cup {Gone}, req : 0..MaxAsks]

BridgeTypes ==
  /\ running \in Versions \cup {Down}
  /\ venv \in Versions \cup {Broken}
  /\ managed \in BOOLEAN /\ readers \subseteq Runtimes /\ busy \in BOOLEAN
  /\ stage \in Stages
  /\ task \in Tasks
  /\ promise \in Versions \cup {Nothing} /\ proven \subseteq Versions /\ ran \in Versions
  /\ faults \in 0..MaxFaults

RuntimeTypes ==
  /\ inbox \in [Runtimes -> Seq(1..MaxAsks)]
  /\ outbox \in [Runtimes -> Seq(Frames)]
  /\ linked \in [Runtimes -> Links]
  /\ asking \in [Runtimes -> BOOLEAN]
  /\ jobs \in [Runtimes -> Seq(Jobs)]
  /\ \A r \in Runtimes : Len(jobs[r]) <= MaxAsks

\* An update is worked on by a process, for a newer version than its own, and for
\* a runtime of that version.
TaskIsNewer ==
  /\ busy <=> stage # "idle"
  /\ stage # "idle" =>
       /\ running # Down
       /\ task.version \in Versions /\ task.version > running
       /\ task.req \in 1..MaxAsks
       /\ task.asker # Gone => Own[task.asker] = task.version

\* What was verified is what the virtualenv holds.
VerifiedIsThere ==
  stage \in {"verified", "helpers", "leaving"} =>
    venv = task.version /\ task.version \in proven

RunningIsProven == running # Down => ran = running /\ running \in proven

\* A promise is kept by being busy until the process has gone.
PromiseHolds ==
  promise # Nothing =>
    venv = promise /\ (running = Down \/ stage \in {"helpers", "leaving"})

\* No frame says more than what was proven.
FrameIsTrue(r, frame, known) ==
  /\ frame.kind = "result" /\ frame.outcome = "updated" => Own[r] \in known
  /\ frame.kind = "snapshot" => frame.version \in known

FramesAreTrue ==
  \A r \in Runtimes : \A i \in 1..Len(outbox[r]) : FrameIsTrue(r, outbox[r][i], proven)

BridgeInv ==
  BridgeTypes /\ TaskIsNewer /\ VerifiedIsThere /\ RunningIsProven /\ PromiseHolds
  /\ NeverPulledBack

IInv == BridgeInv /\ RuntimeTypes /\ FramesAreTrue /\ UpdatedIsTrue

-----------------------------------------------------------------------------
LEMMA VersionsAreNumbers ==
  ASSUME Given
  PROVE  Versions \subseteq Nat \ {0} /\ \A r \in Runtimes : Own[r] \in Versions
BY DEF Given, Versions

LEMMA InitIInv ==
  ASSUME Given, Init
  PROVE  IInv
<1>0. Versions \subseteq Nat \ {0} /\ FirstVersion \in Versions
  BY VersionsAreNumbers DEF Versions
<1>1. BridgeTypes
  <2>1. NoTask \in Tasks
    BY DEF Given, NoTask, Tasks, Nothing
  <2>2. 0 \in 0..MaxFaults
    BY DEF Given
  <2> QED BY <1>0, <2>1, <2>2 DEF Init, BridgeTypes, Stages, Given
<1>2. RuntimeTypes
  BY DEF Given, Init, RuntimeTypes, Links, Nothing
<1>3. TaskIsNewer /\ VerifiedIsThere /\ PromiseHolds
  BY DEF Init, TaskIsNewer, VerifiedIsThere, PromiseHolds
<1>4. RunningIsProven
  BY DEF Init, RunningIsProven
<1>5. NeverPulledBack
  BY <1>0 DEF Init, NeverPulledBack
<1>6. FramesAreTrue /\ UpdatedIsTrue
  BY DEF Init, FramesAreTrue, UpdatedIsTrue
<1> QED BY <1>1, <1>2, <1>3, <1>4, <1>5, <1>6 DEF IInv, BridgeInv

-----------------------------------------------------------------------------
(* What the steps have in common.                                          *)

\* What is proven stays so, and with it what was said.
LEMMA TruthKept ==
  ASSUME IInv, proven \subseteq proven', outbox' = outbox, jobs' = jobs
  PROVE  FramesAreTrue' /\ UpdatedIsTrue'
BY DEF IInv, FramesAreTrue, FrameIsTrue, UpdatedIsTrue

LEMMA RuntimesKept ==
  ASSUME IInv, UNCHANGED <<inbox, outbox, clientVars>>
  PROVE  RuntimeTypes'
BY DEF IInv, RuntimeTypes, clientVars

\* A step of the bridge alone has only the bridge to show.
LEMMA BridgeAlone ==
  ASSUME IInv, UNCHANGED <<inbox, outbox, clientVars>>, proven \subseteq proven', BridgeInv'
  PROVE  IInv'
BY TruthKept, RuntimesKept DEF clientVars, IInv

\* A step of a runtime leaves the bridge as it is.
LEMMA BridgeKept ==
  ASSUME IInv, UNCHANGED <<bridgeVars, managed, readers, faults>>
  PROVE  BridgeInv'
BY DEF IInv, BridgeInv, bridgeVars, BridgeTypes, TaskIsNewer, VerifiedIsThere,
   RunningIsProven, PromiseHolds, NeverPulledBack

\* One job of a runtime changes, to "updated" only when that is true.
LEMMA JobChanged ==
  ASSUME Given, IInv, NEW r \in Runtimes, NEW k \in Nat, NEW job \in Jobs,
         proven' = proven, jobs' = [jobs EXCEPT ![r] = [jobs[r] EXCEPT ![k] = job]],
         \/ job.outcome = jobs[r][k].outcome
         \/ job.outcome = "updated" => Own[r] \in proven
  PROVE  /\ jobs' \in [Runtimes -> Seq(Jobs)]
         /\ \A s \in Runtimes : Len(jobs'[s]) <= MaxAsks
         /\ UpdatedIsTrue'
<1> DEFINE new == [jobs[r] EXCEPT ![k] = job]
<1>0. /\ jobs \in [Runtimes -> Seq(Jobs)] /\ UpdatedIsTrue
      /\ \A s \in Runtimes : Len(jobs[s]) <= MaxAsks
  BY DEF IInv, RuntimeTypes
<1>1. jobs[r] \in Seq(Jobs)
  BY <1>0
<1>2. new \in Seq(Jobs) /\ Len(new) = Len(jobs[r]) /\ DOMAIN new = DOMAIN jobs[r]
  <2>1. jobs[r] \in [1..Len(jobs[r]) -> Jobs] /\ Len(jobs[r]) \in Nat
    BY <1>1
  <2>2. new \in [1..Len(jobs[r]) -> Jobs]
    BY <2>1
  <2> HIDE DEF new
  <2>3. new \in Seq(Jobs) /\ Len(new) = Len(jobs[r])
    BY <2>1, <2>2
  <2>4. DOMAIN new = 1..Len(jobs[r]) /\ DOMAIN jobs[r] = 1..Len(jobs[r])
    BY <2>1, <2>2
  <2> QED BY <2>3, <2>4
<1>3. \A i \in DOMAIN jobs[r] : new[i] = IF i = k THEN job ELSE jobs[r][i]
  OBVIOUS
<1>4. \A i \in DOMAIN jobs[r] : jobs[r][i].outcome = "updated" => Own[r] \in proven
  BY <1>0 DEF UpdatedIsTrue
<1>5. \A i \in DOMAIN jobs[r] : new[i].outcome = "updated" => Own[r] \in proven
  BY <1>3, <1>4
<1>6. jobs' = [jobs EXCEPT ![r] = new]
  OBVIOUS
<1> HIDE DEF new
<1>7. jobs' \in [Runtimes -> Seq(Jobs)] /\ \A s \in Runtimes : Len(jobs'[s]) <= MaxAsks
  BY <1>0, <1>2, <1>6
<1>8. ASSUME NEW s \in Runtimes, NEW i \in DOMAIN jobs'[s], jobs'[s][i].outcome = "updated"
      PROVE  Own[s] \in proven
  <2>1. CASE s = r
    BY <1>0, <1>2, <1>5, <1>6, <1>8, <2>1
  <2>2. CASE s # r
    BY <1>0, <1>6, <1>8, <2>2 DEF UpdatedIsTrue
  <2> QED BY <2>1, <2>2
<1> QED BY <1>7, <1>8 DEF UpdatedIsTrue

\* A frame that is true can be sent.
LEMMA Sent ==
  ASSUME Given, IInv, NEW r \in Runtimes \cup {Gone}, NEW frame \in Frames,
         proven' = proven, outbox' = To(r, frame),
         r # Gone => FrameIsTrue(r, frame, proven)
  PROVE  outbox' \in [Runtimes -> Seq(Frames)] /\ FramesAreTrue'
<1>0. outbox \in [Runtimes -> Seq(Frames)] /\ FramesAreTrue
  BY DEF IInv, RuntimeTypes
<1>2. CASE r = Gone
  BY <1>0, <1>2 DEF To, FramesAreTrue, FrameIsTrue
<1>3. CASE r # Gone
  <2>1. r \in Runtimes /\ outbox' = [outbox EXCEPT ![r] = Append(@, frame)]
    BY <1>3 DEF To
  <2>2. outbox[r] \in Seq(Frames)
    BY <1>0, <2>1
  <2>3. Append(outbox[r], frame) \in Seq(Frames)
    BY <2>2
  <2>4. outbox' \in [Runtimes -> Seq(Frames)]
    BY <1>0, <2>1, <2>3
  <2>5. ASSUME NEW s \in Runtimes, NEW i \in 1..Len(outbox'[s])
        PROVE  FrameIsTrue(s, outbox'[s][i], proven')
    <3>1. CASE s # r
      BY <1>0, <2>1, <2>5, <3>1 DEF FramesAreTrue, FrameIsTrue
    <3>2. CASE s = r
      <4>1. outbox'[s] = Append(outbox[r], frame)
        BY <1>0, <2>1, <3>2
      <4>2. /\ Len(outbox'[s]) = Len(outbox[r]) + 1
            /\ outbox'[s][i] = IF i <= Len(outbox[r]) THEN outbox[r][i] ELSE frame
        BY <2>2, <2>5, <4>1
      <4>3. i \in 1..Len(outbox[r]) => FrameIsTrue(r, outbox[r][i], proven)
        BY <1>0, <2>1 DEF FramesAreTrue
      <4>4. CASE i <= Len(outbox[r])
        BY <2>2, <2>5, <3>2, <4>2, <4>3, <4>4 DEF FrameIsTrue
      <4>5. CASE ~(i <= Len(outbox[r]))
        BY <1>3, <3>2, <4>2, <4>5 DEF FrameIsTrue
      <4> QED BY <4>4, <4>5
    <3> QED BY <3>1, <3>2
  <2> QED BY <2>4, <2>5 DEF FramesAreTrue
<1> QED BY <1>2, <1>3

\* The first frame of a connection is read.
LEMMA HeadRead ==
  ASSUME Given, IInv, NEW r \in Runtimes, outbox[r] # << >>,
         proven' = proven, outbox' = [outbox EXCEPT ![r] = Tail(@)]
  PROVE  /\ Head(outbox[r]) \in Frames /\ FrameIsTrue(r, Head(outbox[r]), proven)
         /\ outbox' \in [Runtimes -> Seq(Frames)] /\ FramesAreTrue'
<1>0. outbox \in [Runtimes -> Seq(Frames)] /\ FramesAreTrue
  BY DEF IInv, RuntimeTypes
<1>1. outbox[r] \in Seq(Frames) /\ outbox[r] # << >>
  BY <1>0
<1>2. /\ Head(outbox[r]) = outbox[r][1] /\ Head(outbox[r]) \in Frames
      /\ 1 \in 1..Len(outbox[r]) /\ Tail(outbox[r]) \in Seq(Frames)
      /\ Len(Tail(outbox[r])) = Len(outbox[r]) - 1
      /\ \A i \in 1..Len(Tail(outbox[r])) :
           Tail(outbox[r])[i] = outbox[r][i + 1] /\ i + 1 \in 1..Len(outbox[r])
  <2> HIDE DEF Frames
  <2> QED BY <1>1
<1>3. FrameIsTrue(r, Head(outbox[r]), proven)
  BY <1>0, <1>2 DEF FramesAreTrue
<1>4. outbox' \in [Runtimes -> Seq(Frames)]
  BY <1>0, <1>2
<1>5. ASSUME NEW s \in Runtimes, NEW i \in 1..Len(outbox'[s])
      PROVE  FrameIsTrue(s, outbox'[s][i], proven)
  <2>1. CASE s # r
    BY <1>0, <1>5, <2>1 DEF FramesAreTrue
  <2>2. CASE s = r
    <3>1. outbox'[s] = Tail(outbox[r])
      BY <1>0, <2>2
    <3>2. i \in 1..Len(Tail(outbox[r])) /\ outbox'[s][i] = Tail(outbox[r])[i]
      BY <1>5, <3>1
    <3>3. outbox'[s][i] = outbox[r][i + 1] /\ i + 1 \in 1..Len(outbox[r])
      BY <1>2, <3>2
    <3> QED BY <1>0, <2>2, <3>3 DEF FramesAreTrue
  <2> QED BY <2>1, <2>2
<1> QED BY <1>2, <1>3, <1>4, <1>5 DEF FramesAreTrue

-----------------------------------------------------------------------------
(* The bridge.                                                             *)

LEMMA HandleStep ==
  ASSUME Given, IInv, NEW r \in Runtimes, Handle(r)
  PROVE  IInv'
<1>0. BridgeInv /\ RuntimeTypes
  BY DEF IInv
<1> DEFINE req == Head(inbox[r])
           outcome == IF Refusal(Own[r]) # "none" THEN Refusal(Own[r]) ELSE "updated"
<1>1. inbox[r] \in Seq(1..MaxAsks) /\ inbox[r] # << >> /\ running # Down
  BY <1>0 DEF Handle, RuntimeTypes
<1>2. req \in 1..MaxAsks /\ Tail(inbox[r]) \in Seq(1..MaxAsks)
  <2> DEFINE D == 1..MaxAsks
  <2>1. inbox[r] \in Seq(D) /\ inbox[r] # << >>
    BY <1>1
  <2> HIDE DEF D
  <2>2. Head(inbox[r]) \in D /\ Tail(inbox[r]) \in Seq(D)
    BY <2>1
  <2> QED BY <2>2 DEF D
<1>3. inbox' \in [Runtimes -> Seq(1..MaxAsks)]
  BY <1>0, <1>2 DEF Handle, RuntimeTypes
<1>4. Own[r] \in Versions /\ Own[r] \in Nat /\ running \in Versions /\ running \in Nat
  BY <1>0, <1>1, VersionsAreNumbers DEF BridgeInv, BridgeTypes
<1>5. UNCHANGED <<running, venv, managed, readers, promise, proven, ran, linked, asking, jobs, faults>>
  BY DEF Handle
<1>6. CASE Refusal(Own[r]) # "none" \/ Own[r] = running
  <2>1. outbox' = To(r, Result(req, outcome)) /\ UNCHANGED <<busy, stage, task>>
    BY <1>6 DEF Handle
  <2>2. outcome \in Outcomes
    BY DEF Refusal, Outcomes, Refusals
  <2>3. Result(req, outcome) \in Frames
    BY <1>2, <2>2 DEF Result, Frames
  <2>4. FrameIsTrue(r, Result(req, outcome), proven)
    <3>1. Refusal(Own[r]) # "updated"
      BY DEF Refusal
    <3>2. outcome = "updated" => Own[r] = running
      BY <1>6, <3>1
    <3>3. running \in proven
      BY <1>0, <1>1 DEF BridgeInv, RunningIsProven
    <3>4. Result(req, outcome).kind = "result" /\ Result(req, outcome).outcome = outcome
      BY DEF Result
    <3> QED BY <3>2, <3>3, <3>4 DEF FrameIsTrue
  <2>5. outbox' \in [Runtimes -> Seq(Frames)] /\ FramesAreTrue'
    BY <1>5, <2>1, <2>3, <2>4, Sent
  <2>51. UpdatedIsTrue'
    BY <1>5 DEF IInv, UpdatedIsTrue
  <2>6. RuntimeTypes'
    BY <1>0, <1>3, <1>5, <2>5 DEF RuntimeTypes
  <2>7. BridgeInv'
    BY <1>0, <1>5, <2>1 DEF BridgeInv, BridgeTypes, TaskIsNewer, VerifiedIsThere,
       RunningIsProven, PromiseHolds, NeverPulledBack
  <2> QED BY <2>5, <2>51, <2>6, <2>7 DEF IInv
<1>7. CASE ~(Refusal(Own[r]) # "none" \/ Own[r] = running)
  <2>1. /\ busy' = TRUE /\ stage' = "download"
        /\ task' = [version |-> Own[r], asker |-> r, req |-> req]
        /\ UNCHANGED outbox
    BY <1>7 DEF Handle
  <2>2. Refusal(Own[r]) = "none" /\ Own[r] # running
    BY <1>7
  <2>3. ~busy /\ ~(Own[r] < running)
    BY <2>2 DEF Refusal
  <2>4. Own[r] > running
    BY <1>4, <2>2, <2>3
  <2>5. stage = "idle" /\ promise = Nothing
    BY <1>0, <1>1, <2>3 DEF BridgeInv, TaskIsNewer, PromiseHolds
  <2>6. task' \in Tasks /\ task'.version = Own[r] /\ task'.asker = r /\ task'.req = req
    BY <1>2, <1>4, <2>1 DEF Tasks
  <2>7. BridgeTypes'
    BY <1>0, <1>5, <2>1, <2>6 DEF BridgeInv, BridgeTypes, Stages
  <2>8. TaskIsNewer'
    BY <1>1, <1>2, <1>4, <1>5, <2>1, <2>4, <2>6 DEF TaskIsNewer
  <2>9. (VerifiedIsThere /\ RunningIsProven /\ PromiseHolds /\ NeverPulledBack)'
    BY <1>0, <1>5, <2>1, <2>5
    DEF BridgeInv, VerifiedIsThere, RunningIsProven, PromiseHolds, NeverPulledBack
  <2>10. RuntimeTypes'
    BY <1>0, <1>3, <1>5, <2>1 DEF RuntimeTypes
  <2>11. FramesAreTrue' /\ UpdatedIsTrue'
    BY <1>5, <2>1, TruthKept
  <2> QED BY <2>7, <2>8, <2>9, <2>10, <2>11 DEF IInv, BridgeInv
<1> QED BY <1>6, <1>7

LEMMA DownloadStep ==
  ASSUME Given, IInv, Download
  PROVE  IInv'
<1>1. BridgeInv'
  BY DEF IInv, Download, BridgeInv, clientVars, BridgeTypes, Stages, TaskIsNewer,
     VerifiedIsThere, RunningIsProven, PromiseHolds, NeverPulledBack
<1> QED BY <1>1, BridgeAlone DEF Download

LEMMA InstallStep ==
  ASSUME Given, IInv, Install
  PROVE  IInv'
<1>0. BridgeInv
  BY DEF IInv
<1>1. /\ task.version \in Versions /\ task.version > running /\ running # Down
      /\ running \in Versions /\ ran = running /\ promise = Nothing
  BY <1>0 DEF BridgeInv, Install, TaskIsNewer, RunningIsProven, PromiseHolds, BridgeTypes
<1>2. BridgeTypes'
  BY <1>0, <1>1 DEF BridgeInv, BridgeTypes, Install, Stages
<1>3. NeverPulledBack'
  BY <1>1, VersionsAreNumbers DEF Install, NeverPulledBack
<1>4. (TaskIsNewer /\ VerifiedIsThere /\ RunningIsProven /\ PromiseHolds)'
  BY <1>0, <1>1
  DEF BridgeInv, Install, TaskIsNewer, VerifiedIsThere, RunningIsProven, PromiseHolds
<1> QED BY <1>2, <1>3, <1>4, BridgeAlone DEF Install, BridgeInv

LEMMA VerifyStep ==
  ASSUME Given, IInv, Verify
  PROVE  IInv'
<1>0. BridgeInv
  BY DEF IInv
<1>1. task.version \in Versions /\ running # Down /\ promise = Nothing
  BY <1>0 DEF BridgeInv, Verify, TaskIsNewer, PromiseHolds
<1>2. BridgeTypes'
  BY <1>0, <1>1 DEF BridgeInv, BridgeTypes, Verify, Stages
<1>3. (TaskIsNewer /\ VerifiedIsThere /\ RunningIsProven /\ PromiseHolds /\ NeverPulledBack)'
  BY <1>0, <1>1
  DEF BridgeInv, Verify, TaskIsNewer, VerifiedIsThere, RunningIsProven, PromiseHolds,
      NeverPulledBack
<1> QED BY <1>2, <1>3, BridgeAlone DEF Verify, BridgeInv

LEMMA FailStep ==
  ASSUME Given, IInv, Fail
  PROVE  IInv'
<1>0. BridgeInv
  BY DEF IInv
<1>1. /\ task.version \in Versions /\ task.version > running /\ running # Down
      /\ running \in Versions /\ ran = running /\ promise = Nothing
  BY <1>0 DEF BridgeInv, Fail, TaskIsNewer, RunningIsProven, PromiseHolds, BridgeTypes
<1>2. venv' \in {venv, task.version, Broken} /\ stage' = "failed" /\ stage # "idle"
  BY DEF Fail
<1>3. BridgeTypes'
  BY <1>0, <1>1, <1>2 DEF BridgeInv, BridgeTypes, Fail, Stages
<1>4. NeverPulledBack'
  BY <1>0, <1>1, <1>2, VersionsAreNumbers DEF BridgeInv, Fail, NeverPulledBack
<1>5. (TaskIsNewer /\ VerifiedIsThere /\ RunningIsProven /\ PromiseHolds)'
  BY <1>0, <1>1, <1>2
  DEF BridgeInv, Fail, TaskIsNewer, VerifiedIsThere, RunningIsProven, PromiseHolds
<1> QED BY <1>3, <1>4, <1>5, BridgeAlone DEF Fail, BridgeInv

LEMMA RestartHelpersStep ==
  ASSUME Given, IInv, RestartHelpers
  PROVE  IInv'
<1>1. BridgeInv'
  BY DEF IInv, RestartHelpers, BridgeInv, clientVars, BridgeTypes, Stages, TaskIsNewer,
     VerifiedIsThere, RunningIsProven, PromiseHolds, NeverPulledBack
<1> QED BY <1>1, BridgeAlone DEF RestartHelpers

LEMMA FailReplyStep ==
  ASSUME Given, IInv, FailReply
  PROVE  IInv'
<1>0. BridgeInv /\ RuntimeTypes /\ UpdatedIsTrue
  BY DEF IInv
<1> DEFINE frame == Result(task.req, "failed")
<1>1. task.req \in 1..MaxAsks /\ task.asker \in Runtimes \cup {Gone}
  BY <1>0 DEF BridgeInv, BridgeTypes, Tasks, TaskIsNewer, FailReply
<1>2. frame \in Frames /\ frame.kind = "result" /\ frame.outcome = "failed"
  BY <1>1 DEF Result, Frames, Outcomes, Refusals
<1>3. FrameIsTrue(task.asker, frame, proven)
  BY <1>2 DEF FrameIsTrue
<1> HIDE DEF frame
<1>4. outbox' \in [Runtimes -> Seq(Frames)] /\ FramesAreTrue'
  <2>1. outbox' = To(task.asker, frame) /\ proven' = proven
    BY DEF FailReply, frame
  <2> QED BY <1>1, <1>2, <1>3, <2>1, Sent
<1>5. RuntimeTypes' /\ UpdatedIsTrue'
  BY <1>0, <1>4 DEF FailReply, clientVars, RuntimeTypes, UpdatedIsTrue
<1>6. BridgeTypes'
  <2>1. NoTask \in Tasks
    BY DEF Given, NoTask, Tasks, Nothing
  <2> QED BY <1>0, <2>1 DEF FailReply, BridgeInv, BridgeTypes, Stages
<1>7. (TaskIsNewer /\ VerifiedIsThere /\ RunningIsProven /\ PromiseHolds /\ NeverPulledBack)'
  BY <1>0
  DEF BridgeInv, FailReply, TaskIsNewer, VerifiedIsThere, RunningIsProven, PromiseHolds,
      NeverPulledBack
<1> QED BY <1>4, <1>5, <1>6, <1>7 DEF IInv, BridgeInv

LEMMA ReplyStep ==
  ASSUME Given, IInv, Reply
  PROVE  IInv'
<1>0. BridgeInv /\ RuntimeTypes /\ UpdatedIsTrue
  BY DEF IInv
<1> DEFINE frame == Result(task.req, "updated")
<1>1. /\ task.req \in 1..MaxAsks /\ task.asker \in Runtimes \cup {Gone}
      /\ task.asker # Gone => Own[task.asker] = task.version
      /\ task.version \in Versions /\ task.version \in proven /\ venv = task.version
      /\ running # Down
  BY <1>0 DEF BridgeInv, BridgeTypes, Tasks, TaskIsNewer, VerifiedIsThere, Reply
<1>2. frame \in Frames /\ frame.kind = "result" /\ frame.outcome = "updated"
  BY <1>1 DEF Result, Frames, Outcomes, Refusals
<1>3. task.asker # Gone => FrameIsTrue(task.asker, frame, proven)
  BY <1>1, <1>2 DEF FrameIsTrue
<1> HIDE DEF frame
<1>4. outbox' \in [Runtimes -> Seq(Frames)] /\ FramesAreTrue'
  <2>1. outbox' = To(task.asker, frame) /\ proven' = proven
    BY DEF Reply, frame
  <2> QED BY <1>1, <1>2, <1>3, <2>1, Sent
<1>5. RuntimeTypes' /\ UpdatedIsTrue'
  BY <1>0, <1>4 DEF Reply, clientVars, RuntimeTypes, UpdatedIsTrue
<1>6. BridgeTypes'
  BY <1>0, <1>1 DEF Reply, BridgeInv, BridgeTypes, Stages
<1>7. (TaskIsNewer /\ VerifiedIsThere /\ RunningIsProven /\ PromiseHolds /\ NeverPulledBack)'
  BY <1>0, <1>1
  DEF BridgeInv, Reply, TaskIsNewer, VerifiedIsThere, RunningIsProven, PromiseHolds,
      NeverPulledBack
<1> QED BY <1>4, <1>5, <1>6, <1>7 DEF IInv, BridgeInv

LEMMA BootStep ==
  ASSUME Given, IInv, Boot
  PROVE  IInv'
<1>0. BridgeInv
  BY DEF IInv
<1>1. venv \in Versions /\ stage = "idle" /\ venv # Down /\ venv \in Nat
  BY <1>0, VersionsAreNumbers DEF BridgeInv, BridgeTypes, TaskIsNewer, Boot, Down
<1>2. BridgeTypes'
  BY <1>0, <1>1 DEF BridgeInv, BridgeTypes, Boot
<1>3. (TaskIsNewer /\ VerifiedIsThere /\ RunningIsProven /\ PromiseHolds /\ NeverPulledBack)'
  BY <1>0, <1>1
  DEF BridgeInv, Boot, TaskIsNewer, VerifiedIsThere, RunningIsProven, PromiseHolds,
      NeverPulledBack
<1> QED BY <1>2, <1>3, BridgeAlone DEF Boot, BridgeInv

-----------------------------------------------------------------------------
(* The process ends.                                                       *)

\* What a lost connection does to the jobs of a runtime.
LEMMA DisconnectKeeps ==
  ASSUME IInv, NEW r \in Runtimes
  PROVE  /\ Disconnect(r) \in Seq(Jobs) /\ Len(Disconnect(r)) = Len(jobs[r])
         /\ \A k \in DOMAIN jobs[r] : Disconnect(r)[k].outcome = jobs[r][k].outcome
         /\ DOMAIN Disconnect(r) = DOMAIN jobs[r]
<1>0. jobs[r] \in Seq(Jobs)
  BY DEF IInv, RuntimeTypes
<1> DEFINE n == Len(jobs[r])
           job == [jobs[r][n] EXCEPT !.disconnected = TRUE]
           new == [jobs[r] EXCEPT ![n] = job]
<1>1. CASE Disconnect(r) = jobs[r]
  BY <1>0, <1>1
<1>2. CASE Disconnect(r) # jobs[r]
  <2>1. jobs[r] # << >> /\ Disconnect(r) = new
    BY <1>2 DEF Disconnect
  <2>2. n \in 1..Len(jobs[r]) /\ jobs[r] \in [1..n -> Jobs] /\ n \in Nat
    BY <1>0, <2>1
  <2>3. jobs[r][n] \in Jobs
    BY <2>2
  <2>4. job \in Jobs /\ job.outcome = jobs[r][n].outcome
    BY <2>3 DEF Jobs
  <2> HIDE DEF job
  <2>5. new \in [1..n -> Jobs] /\ \A k \in 1..n : new[k] = IF k = n THEN job ELSE jobs[r][k]
    BY <2>2, <2>4
  <2> HIDE DEF new
  <2>6. new \in Seq(Jobs) /\ Len(new) = n /\ DOMAIN new = 1..n /\ DOMAIN jobs[r] = 1..n
    BY <2>2, <2>5
  <2> QED BY <2>1, <2>4, <2>5, <2>6
<1> QED BY <1>1, <1>2

LEMMA StopStep ==
  ASSUME Given, IInv, Stop, faults' \in 0..MaxFaults
  PROVE  IInv'
<1>0. BridgeInv /\ RuntimeTypes /\ UpdatedIsTrue
  BY DEF IInv
<1>1. BridgeTypes'
  <2>1. NoTask \in Tasks
    BY DEF Given, NoTask, Tasks, Nothing
  <2> QED BY <1>0, <2>1 DEF Stop, BridgeInv, BridgeTypes, Stages
<1>2. (TaskIsNewer /\ VerifiedIsThere /\ RunningIsProven /\ PromiseHolds /\ NeverPulledBack)'
  BY <1>0
  DEF BridgeInv, Stop, TaskIsNewer, VerifiedIsThere, RunningIsProven, PromiseHolds,
      NeverPulledBack
<1>3. linked' \in [Runtimes -> Links]
  <2>1. ASSUME NEW r \in Runtimes
        PROVE  Dropped(r) \in Links
    BY <1>0, <2>1 DEF RuntimeTypes, Links, Dropped
  <2>2. linked' = [r \in Runtimes |-> Dropped(r)]
    BY DEF Stop
  <2> QED BY <2>1, <2>2
<1>4. jobs' = [r \in Runtimes |-> Disconnect(r)] /\ proven' = proven
  BY DEF Stop
<1>5. jobs' \in [Runtimes -> Seq(Jobs)] /\ \A r \in Runtimes : Len(jobs'[r]) <= MaxAsks
  BY <1>0, <1>4, DisconnectKeeps DEF RuntimeTypes
<1>6. UpdatedIsTrue'
  BY <1>0, <1>4, DisconnectKeeps DEF UpdatedIsTrue
<1>7. RuntimeTypes' /\ FramesAreTrue'
  <2>1. inbox' = [r \in Runtimes |-> << >>] /\ outbox' = [r \in Runtimes |-> << >>]
        /\ asking' = asking
    BY DEF Stop
  <2>2. inbox' \in [Runtimes -> Seq(1..MaxAsks)] /\ outbox' \in [Runtimes -> Seq(Frames)]
    BY <2>1
  <2>3. \A r \in Runtimes : 1..Len(outbox'[r]) = {}
    BY <2>1
  <2> QED BY <1>0, <1>3, <1>5, <2>1, <2>2, <2>3 DEF RuntimeTypes, FramesAreTrue
<1> QED BY <1>1, <1>2, <1>6, <1>7 DEF IInv, BridgeInv

LEMMA ExitStep ==
  ASSUME Given, IInv, Exit
  PROVE  IInv'
BY StopStep DEF Exit, IInv, BridgeInv, BridgeTypes

LEMMA CrashStep ==
  ASSUME Given, IInv, Crash
  PROVE  IInv'
<1>1. faults' \in 0..MaxFaults
  BY DEF Given, Crash, IInv, BridgeInv, BridgeTypes
<1> QED BY <1>1, StopStep DEF Crash

LEMMA ConnectStep ==
  ASSUME Given, IInv, NEW r \in Runtimes, Connect(r)
  PROVE  IInv'
<1>0. BridgeInv' /\ BridgeInv /\ RuntimeTypes /\ UpdatedIsTrue /\ FramesAreTrue
  BY BridgeKept DEF Connect, IInv
<1>1. running \in Versions /\ running \in proven
  BY <1>0 DEF Connect, BridgeInv, BridgeTypes, RunningIsProven
<1> DEFINE frame == SnapshotOf(running)
<1>2. frame \in Frames /\ frame.kind = "snapshot" /\ frame.version = running
  BY <1>1 DEF SnapshotOf, Frames
<1>3. FrameIsTrue(r, frame, proven)
  BY <1>1, <1>2 DEF FrameIsTrue
<1> HIDE DEF frame
<1>4. outbox' = [outbox EXCEPT ![r] = <<frame>>] /\ proven' = proven /\ jobs' = jobs
  BY DEF Connect, bridgeVars, frame
<1>5. outbox' \in [Runtimes -> Seq(Frames)]
  BY <1>0, <1>2, <1>4 DEF RuntimeTypes
<1>6. FramesAreTrue'
  <2>1. ASSUME NEW s \in Runtimes, NEW i \in 1..Len(outbox'[s])
        PROVE  FrameIsTrue(s, outbox'[s][i], proven)
    <3>1. CASE s = r
      <4>1. outbox'[s] = <<frame>> /\ i = 1
        BY <1>0, <1>4, <2>1, <3>1 DEF RuntimeTypes
      <4> QED BY <1>3, <3>1, <4>1
    <3>2. CASE s # r
      BY <1>0, <1>4, <2>1, <3>2 DEF RuntimeTypes, FramesAreTrue
    <3> QED BY <3>1, <3>2
  <2> QED BY <1>4, <2>1 DEF FramesAreTrue
<1>7. linked' \in [Runtimes -> Links]
  BY <1>0 DEF Connect, RuntimeTypes, Links
<1>8. RuntimeTypes' /\ UpdatedIsTrue'
  BY <1>0, <1>4, <1>5, <1>7 DEF Connect, RuntimeTypes, UpdatedIsTrue
<1> QED BY <1>0, <1>6, <1>8 DEF IInv

LEMMA DropStep ==
  ASSUME Given, IInv, NEW r \in Runtimes, Drop(r)
  PROVE  IInv'
<1>0. BridgeInv /\ RuntimeTypes /\ UpdatedIsTrue /\ FramesAreTrue
  BY DEF IInv
<1>1. /\ task' \in Tasks /\ task'.version = task.version /\ task'.req = task.req
      /\ task'.asker \in {task.asker, Gone}
  BY <1>0 DEF Drop, BridgeInv, BridgeTypes, Tasks
<1>2. faults' \in 0..MaxFaults
  BY <1>0 DEF Given, Drop, BridgeInv, BridgeTypes
<1>3. BridgeTypes'
  BY <1>0, <1>1, <1>2 DEF BridgeInv, BridgeTypes, Drop
<1>4. (TaskIsNewer /\ VerifiedIsThere /\ RunningIsProven /\ PromiseHolds /\ NeverPulledBack)'
  BY <1>0, <1>1
  DEF BridgeInv, Drop, TaskIsNewer, VerifiedIsThere, RunningIsProven, PromiseHolds,
      NeverPulledBack
<1>5. linked' \in [Runtimes -> Links]
  <2>1. Dropped(r) \in Links
    BY <1>0 DEF RuntimeTypes, Links, Dropped
  <2> QED BY <1>0, <2>1 DEF Drop, RuntimeTypes
<1>6. jobs' = [jobs EXCEPT ![r] = Disconnect(r)] /\ proven' = proven
  BY DEF Drop
<1>7. jobs' \in [Runtimes -> Seq(Jobs)] /\ \A s \in Runtimes : Len(jobs'[s]) <= MaxAsks
  BY <1>0, <1>6, DisconnectKeeps DEF RuntimeTypes
<1>8. UpdatedIsTrue'
  BY <1>0, <1>6, DisconnectKeeps DEF UpdatedIsTrue, RuntimeTypes
<1>9. RuntimeTypes' /\ FramesAreTrue'
  <2>1. inbox' = [inbox EXCEPT ![r] = << >>] /\ outbox' = [outbox EXCEPT ![r] = << >>]
        /\ asking' = asking
    BY DEF Drop
  <2>2. inbox' \in [Runtimes -> Seq(1..MaxAsks)] /\ outbox' \in [Runtimes -> Seq(Frames)]
    BY <1>0, <2>1 DEF RuntimeTypes
  <2>3. \A s \in Runtimes : outbox'[s] = << >> \/ outbox'[s] = outbox[s]
    BY <1>0, <2>1 DEF RuntimeTypes
  <2>4. FramesAreTrue'
    BY <1>0, <1>6, <2>3 DEF FramesAreTrue
  <2> QED BY <1>0, <1>5, <1>7, <2>1, <2>2, <2>4 DEF RuntimeTypes
<1> QED BY <1>3, <1>4, <1>8, <1>9 DEF IInv, BridgeInv

-----------------------------------------------------------------------------
(* A runtime.                                                              *)

LEMMA AskStep ==
  ASSUME Given, IInv, NEW r \in Runtimes, Ask(r)
  PROVE  IInv'
<1>1. BridgeInv' /\ RuntimeTypes /\ UpdatedIsTrue /\ FramesAreTrue
  BY BridgeKept DEF Ask, IInv
<1>2. RuntimeTypes' /\ UpdatedIsTrue' /\ FramesAreTrue'
  BY <1>1 DEF Ask, RuntimeTypes, UpdatedIsTrue, FramesAreTrue, bridgeVars
<1> QED BY <1>1, <1>2 DEF IInv

LEMMA BeginStep ==
  ASSUME Given, IInv, NEW r \in Runtimes, Begin(r)
  PROVE  IInv'
<1>0. BridgeInv' /\ RuntimeTypes /\ UpdatedIsTrue /\ FramesAreTrue
  BY BridgeKept DEF Begin, IInv
<1>1. proven' = proven /\ linked' = linked /\ asking' \in [Runtimes -> BOOLEAN]
  BY <1>0 DEF Begin, bridgeVars, RuntimeTypes
<1>2. CASE Running(r) \/ Len(jobs[r]) = MaxAsks
  <2>1. UNCHANGED <<jobs, inbox, outbox>>
    BY <1>2 DEF Begin
  <2> QED BY <1>0, <1>1, <2>1 DEF RuntimeTypes, UpdatedIsTrue, FramesAreTrue, IInv
<1>3. CASE ~(Running(r) \/ Len(jobs[r]) = MaxAsks)
  <2> DEFINE n == Len(jobs[r])
             job == [outcome |-> "none", disconnected |-> FALSE, late |-> FALSE,
                     sent |-> linked[r].up]
             frame == Result(n + 1, "readonly")
  <2>1. /\ jobs' = [jobs EXCEPT ![r] = Append(@, job)]
        /\ inbox' = IF linked[r].up /\ r \notin readers
                    THEN [inbox EXCEPT ![r] = Append(@, n + 1)] ELSE inbox
        /\ outbox' = IF linked[r].up /\ r \in readers THEN To(r, frame) ELSE outbox
    BY <1>3 DEF Begin
  <2>2. job \in Jobs /\ job.outcome = "none"
    BY <1>0 DEF Jobs, Outcomes, RuntimeTypes, Links
  <2> HIDE DEF job
  <2>3. jobs[r] \in Seq(Jobs) /\ n \in Nat
    BY <1>0 DEF RuntimeTypes
  <2>4. n + 1 \in 1..MaxAsks
    BY <1>0, <1>3, <2>3 DEF Given, RuntimeTypes
  <2>5. /\ Append(jobs[r], job) \in Seq(Jobs) /\ Len(Append(jobs[r], job)) = n + 1
        /\ DOMAIN Append(jobs[r], job) = 1..n + 1
        /\ \A k \in 1..n : Append(jobs[r], job)[k] = jobs[r][k]
        /\ Append(jobs[r], job)[n + 1] = job /\ DOMAIN jobs[r] = 1..n
    BY <2>2, <2>3
  <2>6. jobs' \in [Runtimes -> Seq(Jobs)] /\ \A s \in Runtimes : Len(jobs'[s]) <= MaxAsks
    BY <1>0, <2>1, <2>4, <2>5 DEF RuntimeTypes
  <2>7. UpdatedIsTrue'
    <3>1. ASSUME NEW s \in Runtimes, NEW k \in DOMAIN jobs'[s],
                 jobs'[s][k].outcome = "updated"
          PROVE  Own[s] \in proven
      <4>1. CASE s # r
        BY <1>0, <2>1, <3>1, <4>1 DEF RuntimeTypes, UpdatedIsTrue
      <4>2. CASE s = r
        <5>1. jobs'[s] = Append(jobs[r], job)
          BY <1>0, <2>1, <4>2 DEF RuntimeTypes
        <5>2. k \in 1..n \/ k = n + 1
          BY <2>3, <2>5, <3>1, <5>1
        <5>3. k # n + 1
          BY <2>2, <2>5, <3>1, <5>1
        <5> QED BY <1>0, <2>5, <3>1, <4>2, <5>1, <5>2, <5>3 DEF UpdatedIsTrue
      <4> QED BY <4>1, <4>2
    <3> QED BY <1>1, <3>1 DEF UpdatedIsTrue
  <2>8. inbox' \in [Runtimes -> Seq(1..MaxAsks)]
    BY <1>0, <2>1, <2>4 DEF RuntimeTypes
  <2>9. outbox' \in [Runtimes -> Seq(Frames)] /\ FramesAreTrue'
    <3>1. frame \in Frames /\ frame.kind = "result" /\ frame.outcome = "readonly"
      BY <2>4 DEF Result, Frames, Outcomes
    <3>2. FrameIsTrue(r, frame, proven)
      BY <3>1 DEF FrameIsTrue
    <3> HIDE DEF frame
    <3>3. CASE outbox' = outbox
      BY <1>0, <1>1, <3>3 DEF RuntimeTypes, FramesAreTrue
    <3>4. CASE outbox' = To(r, frame)
      BY <1>1, <3>1, <3>2, <3>4, Sent
    <3> QED BY <2>1, <3>3, <3>4
  <2> QED BY <1>0, <1>1, <2>6, <2>7, <2>8, <2>9 DEF IInv, RuntimeTypes
<1> QED BY <1>2, <1>3

\* _finish sets the outcome of a job that has none.
LEMMA Finished ==
  ASSUME Given, IInv, NEW r \in Runtimes, NEW k \in Nat, NEW outcome \in Outcomes,
         proven' = proven, jobs' = Finish(r, k, outcome),
         outcome = "updated" => Own[r] \in proven
  PROVE  /\ jobs' \in [Runtimes -> Seq(Jobs)]
         /\ \A s \in Runtimes : Len(jobs'[s]) <= MaxAsks
         /\ UpdatedIsTrue'
<1>0. jobs \in [Runtimes -> Seq(Jobs)] /\ UpdatedIsTrue
      /\ \A s \in Runtimes : Len(jobs[s]) <= MaxAsks
  BY DEF IInv, RuntimeTypes
<1>1. CASE jobs' = jobs
  BY <1>0, <1>1 DEF UpdatedIsTrue
<1>2. CASE k \notin DOMAIN jobs[r]
  <2>1. jobs[r] \in [1..Len(jobs[r]) -> Jobs]
    BY <1>0
  <2>2. [jobs[r] EXCEPT ![k].outcome = outcome] = jobs[r]
    BY <1>2, <2>1
  <2>3. [jobs EXCEPT ![r][k].outcome = outcome] = jobs
    BY <1>0, <2>2
  <2> QED BY <1>1, <2>3 DEF Finish
<1>3. CASE k \in DOMAIN jobs[r] /\ jobs' # jobs
  <2> DEFINE job == [jobs[r][k] EXCEPT !.outcome = outcome]
  <2>1. jobs[r][k] \in Jobs
    BY <1>0, <1>3
  <2>2. job \in Jobs /\ job.outcome = outcome
    BY <2>1 DEF Jobs
  <2>3. jobs' = [jobs EXCEPT ![r] = [jobs[r] EXCEPT ![k] = job]]
    BY <1>0, <1>3 DEF Finish
  <2> HIDE DEF job
  <2> QED BY <2>2, <2>3, JobChanged
<1> QED BY <1>1, <1>2, <1>3

LEMMA ReceiveResultStep ==
  ASSUME Given, IInv, NEW r \in Runtimes, ReceiveResult(r)
  PROVE  IInv'
<1>0. BridgeInv' /\ RuntimeTypes /\ FramesAreTrue
  BY BridgeKept DEF ReceiveResult, IInv
<1>1. proven' = proven /\ UNCHANGED <<inbox, linked, asking>>
  BY DEF ReceiveResult, bridgeVars
<1>2. outbox' \in [Runtimes -> Seq(Frames)] /\ FramesAreTrue'
  BY <1>1, HeadRead DEF ReceiveResult
<1>3. /\ Head(outbox[r]) \in Frames /\ Head(outbox[r]).kind = "result"
      /\ FrameIsTrue(r, Head(outbox[r]), proven)
  BY <1>1, HeadRead DEF ReceiveResult
<1>4. /\ Head(outbox[r]).req \in Nat /\ Head(outbox[r]).outcome \in Outcomes
      /\ Head(outbox[r]).outcome = "updated" => Own[r] \in proven
  BY <1>3 DEF Frames, FrameIsTrue
<1>5. jobs' = Finish(r, Head(outbox[r]).req, Head(outbox[r]).outcome)
  BY DEF ReceiveResult
<1>6. /\ jobs' \in [Runtimes -> Seq(Jobs)]
      /\ \A s \in Runtimes : Len(jobs'[s]) <= MaxAsks
      /\ UpdatedIsTrue'
  BY <1>1, <1>4, <1>5, Finished
<1> QED BY <1>0, <1>1, <1>2, <1>6 DEF IInv, RuntimeTypes

LEMMA ReceiveSnapshotStep ==
  ASSUME Given, IInv, NEW r \in Runtimes, ReceiveSnapshot(r)
  PROVE  IInv'
<1>0. BridgeInv' /\ RuntimeTypes /\ FramesAreTrue /\ UpdatedIsTrue
  BY BridgeKept DEF ReceiveSnapshot, IInv
<1>1. proven' = proven /\ UNCHANGED <<inbox, asking>>
  BY DEF ReceiveSnapshot, bridgeVars
<1>2. outbox' \in [Runtimes -> Seq(Frames)] /\ FramesAreTrue'
  BY <1>1, HeadRead DEF ReceiveSnapshot
<1> DEFINE version == Head(outbox[r]).version
<1>3. /\ Head(outbox[r]) \in Frames /\ Head(outbox[r]).kind = "snapshot"
      /\ FrameIsTrue(r, Head(outbox[r]), proven)
  BY <1>1, HeadRead DEF ReceiveSnapshot
<1>4. version \in Versions /\ version \in proven
  BY <1>3 DEF Frames, FrameIsTrue
<1>5. /\ linked' = [linked EXCEPT ![r].capable = (version >= FirstSelfUpdate),
                                  ![r].version = version]
      /\ jobs' = IF Settles(r, version) THEN Finish(r, Len(jobs[r]), "updated") ELSE jobs
  BY DEF ReceiveSnapshot
<1> HIDE DEF version
<1>6. linked' \in [Runtimes -> Links]
  <2> DEFINE capable == version >= FirstSelfUpdate
             link == [linked[r] EXCEPT !.capable = capable, !.version = version]
  <2>1. linked[r] \in Links
    BY <1>0 DEF RuntimeTypes
  <2>2. link \in Links
    <3>1. capable \in BOOLEAN
      BY <1>4, VersionsAreNumbers DEF Given
    <3> HIDE DEF capable
    <3> QED BY <1>4, <2>1, <3>1 DEF Links
  <2>3. linked' = [linked EXCEPT ![r] = link]
    BY <1>0, <1>5 DEF RuntimeTypes
  <2> HIDE DEF link
  <2> QED BY <1>0, <2>2, <2>3 DEF RuntimeTypes
<1>7. /\ jobs' \in [Runtimes -> Seq(Jobs)]
      /\ \A s \in Runtimes : Len(jobs'[s]) <= MaxAsks
      /\ UpdatedIsTrue'
  <2>1. CASE Settles(r, version)
    <3>1. jobs' = Finish(r, Len(jobs[r]), "updated") /\ Own[r] \in proven
      BY <1>4, <1>5, <2>1 DEF Settles
    <3>2. Len(jobs[r]) \in Nat /\ "updated" \in Outcomes
      BY <1>0 DEF RuntimeTypes, Outcomes
    <3> QED BY <1>1, <3>1, <3>2, Finished
  <2>2. CASE ~Settles(r, version)
    BY <1>0, <1>1, <1>5, <2>2 DEF RuntimeTypes, UpdatedIsTrue
  <2> QED BY <2>1, <2>2
<1> QED BY <1>0, <1>1, <1>2, <1>6, <1>7 DEF IInv, RuntimeTypes

LEMMA DeadlineStep ==
  ASSUME Given, IInv, NEW r \in Runtimes, Deadline(r)
  PROVE  IInv'
<1>0. BridgeInv' /\ RuntimeTypes /\ FramesAreTrue
  BY BridgeKept DEF Deadline, IInv
<1>1. proven' = proven /\ UNCHANGED <<inbox, outbox, linked, asking>>
  BY DEF Deadline, bridgeVars
<1> DEFINE n == Len(jobs[r])
           job == [jobs[r][n] EXCEPT !.late = TRUE]
<1>2. jobs[r] \in Seq(Jobs) /\ jobs[r] # << >> /\ n \in Nat /\ n \in 1..n
  BY <1>0 DEF RuntimeTypes, Deadline, Running
<1>3. job \in Jobs /\ job.outcome = jobs[r][n].outcome
  <2>1. jobs[r][n] \in Jobs
    BY <1>2
  <2> QED BY <2>1 DEF Jobs
<1>4. jobs' = [jobs EXCEPT ![r] = [jobs[r] EXCEPT ![n] = job]]
  BY <1>0, <1>2 DEF Deadline, RuntimeTypes
<1> HIDE DEF job
<1>5. /\ jobs' \in [Runtimes -> Seq(Jobs)]
      /\ \A s \in Runtimes : Len(jobs'[s]) <= MaxAsks
      /\ UpdatedIsTrue'
  BY <1>1, <1>2, <1>3, <1>4, JobChanged
<1> QED BY <1>0, <1>1, <1>5 DEF IInv, RuntimeTypes, FramesAreTrue

LEMMA PollStep ==
  ASSUME Given, IInv, NEW r \in Runtimes, Poll(r)
  PROVE  IInv'
<1>0. BridgeInv' /\ RuntimeTypes /\ FramesAreTrue
  BY BridgeKept DEF Poll, IInv
<1>1. proven' = proven /\ UNCHANGED <<inbox, outbox, linked, asking>>
  BY DEF Poll, bridgeVars
<1>2. /\ jobs' = Finish(r, Len(jobs[r]), "failed") /\ Len(jobs[r]) \in Nat
      /\ "failed" \in Outcomes
  BY <1>0 DEF Poll, RuntimeTypes, Outcomes, Refusals
<1>3. /\ jobs' \in [Runtimes -> Seq(Jobs)]
      /\ \A s \in Runtimes : Len(jobs'[s]) <= MaxAsks
      /\ UpdatedIsTrue'
  BY <1>1, <1>2, Finished
<1> QED BY <1>0, <1>1, <1>3 DEF IInv, RuntimeTypes, FramesAreTrue

-----------------------------------------------------------------------------
LEMMA StepIInv ==
  ASSUME Given, IInv, [Next]_vars
  PROVE  IInv'
<1>1. CASE BridgeStep
  BY <1>1, DownloadStep, InstallStep, VerifyStep, FailStep, FailReplyStep, ReplyStep,
     RestartHelpersStep, ExitStep, BootStep DEF BridgeStep
<1>2. CASE Crash
  BY <1>2, CrashStep
<1>3. ASSUME NEW r \in Runtimes,
             Handle(r) \/ Connect(r) \/ Drop(r) \/ Ask(r) \/ Begin(r) \/ ReceiveResult(r)
             \/ ReceiveSnapshot(r) \/ Deadline(r) \/ Poll(r)
      PROVE  IInv'
  BY <1>3, HandleStep, ConnectStep, DropStep, AskStep, BeginStep, ReceiveResultStep,
     ReceiveSnapshotStep, DeadlineStep, PollStep
<1>4. CASE UNCHANGED vars
  <2>1. BridgeInv'
    BY <1>4, BridgeKept DEF vars, bridgeVars
  <2>2. UNCHANGED <<inbox, outbox, clientVars>> /\ proven' = proven
    BY <1>4 DEF vars, clientVars
  <2> QED BY <2>1, <2>2, BridgeAlone
<1> QED BY <1>1, <1>2, <1>3, <1>4 DEF Next

LEMMA IInvIsTyped ==
  ASSUME Given, IInv
  PROVE  TypeOK
<1>0. BridgeInv /\ RuntimeTypes
  BY DEF IInv
<1>1. ASSUME NEW r \in Runtimes
      PROVE  /\ \A k \in DOMAIN inbox[r] : inbox[r][k] \in 1..MaxAsks
             /\ linked[r] \in Links /\ asking[r] \in BOOLEAN
             /\ \A k \in DOMAIN jobs[r] : jobs[r][k] \in Jobs
  <2>1. inbox[r] \in Seq(1..MaxAsks) /\ jobs[r] \in Seq(Jobs)
    BY <1>0, <1>1 DEF RuntimeTypes
  <2>2. linked[r] \in Links /\ asking[r] \in BOOLEAN
    BY <1>0, <1>1 DEF RuntimeTypes
  <2>3. \A k \in DOMAIN inbox[r] : inbox[r][k] \in 1..MaxAsks
    <3> DEFINE D == 1..MaxAsks
    <3>1. inbox[r] \in Seq(D)
      BY <2>1
    <3> HIDE DEF D
    <3>2. \A k \in DOMAIN inbox[r] : inbox[r][k] \in D
      BY <3>1
    <3> QED BY <3>2 DEF D
  <2>4. \A k \in DOMAIN jobs[r] : jobs[r][k] \in Jobs
    BY <2>1
  <2> QED BY <2>2, <2>3, <2>4
<1> QED BY <1>0, <1>1 DEF TypeOK, BridgeInv, BridgeTypes, Tasks, Links, Jobs

LEMMA PromisesAreHonest ==
  ASSUME IInv
  PROVE  UpdateIsHonest
BY DEF IInv, BridgeInv, PromiseHolds, PromiseKept, UpdateIsHonest

-----------------------------------------------------------------------------
\* Whatever runtimes of whatever versions share a bridge, however often it
\* crashes or an install fails half way: it comes back as what it promised,
\* "updated" is never said of a version that no process of its virtualenv has
\* reported, and it is never older than it last ran.
THEOREM Honest ==
  ASSUME Given
  PROVE  Spec => [](TypeOK /\ UpdateIsHonest)
<1>1. Init => IInv
  BY InitIInv
<1>2. IInv /\ [Next]_vars => IInv'
  BY StepIInv
<1>3. IInv => TypeOK /\ UpdateIsHonest
  BY IInvIsTyped, PromisesAreHonest
<1> QED BY <1>1, <1>2, <1>3, PTL DEF Spec
=============================================================================
