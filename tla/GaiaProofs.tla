----------------------------- MODULE GaiaProofs -----------------------------
(***************************************************************************)
(* Proofs about GaiaHub, for any operations, files, keys and faults: its     *)
(* type invariant, and that a verified read never returns what the bucket's  *)
(* owner did not sign.                                                       *)
(***************************************************************************)
EXTENDS GaiaHub, TLAPS

-----------------------------------------------------------------------------
(* The pure part.                                                           *)

LEMMA PutFilesType ==
    ASSUME NEW put, put.data \in Data, put.options \in PutOptions, NEW target \in Targets
    PROVE  PutFiles(put)[target] \in Files
<1>1. Recipient(put.options) \in Keys \cup {NoKey}
  BY DEF Recipient, PutOptions
<1>2. SigningKey(put.options) \in Keys \cup {NoKey}
  BY DEF SigningKey, PutOptions
<1>3. put.options.privateKey \in Keys \cup {NoKey}
  BY DEF PutOptions
<1>4. ContentFile(put.options, put.data) \in Files
  BY <1>1, <1>3 DEF ContentFile, PlainFile, Files, Forms
<1>5. SignatureFile(put.options, put.data) \in Files
  BY <1>2 DEF SignatureFile, Files, Forms
<1> QED
  BY <1>4, <1>5 DEF PutFiles, Targets

LEMMA ParsedType == ASSUME NEW f \in Files PROVE Parsed(f) \in Files
BY EmbeddedAssumption DEF Parsed

LEMMA DecryptType ==
    ASSUME NEW f \in Files, NEW key
    PROVE  Decrypt(f, key) \in Data \cup Failures
BY DEF Decrypt, Files, Failures

LEMMA GetOutcomeType ==
    ASSUME NEW f \in Files, NEW o, NEW owner
    PROVE  GetOutcome(o, f, owner) \in Data \cup Failures
<1>1. f.data \in Data
  BY DEF Files
<1>2. \A key : /\ SignedEncrypted(f, key, owner) \in Data \cup Failures
               /\ Encrypted(f, key) \in Data \cup Failures
  BY ParsedType, DecryptType DEF SignedEncrypted, Encrypted, Failures
<1>3. {"ExpectedString", "NotEncrypted", "NoPrivateKey", "Unreachable"} \subseteq Failures
  BY DEF Failures
<1> QED
  BY <1>1, <1>2, <1>3 DEF GetOutcome

\* Only a signature of the owner over the very contents is taken, if they are not empty.
LEMMA SignedOutcomeValue ==
    ASSUME NEW f \in Files, NEW sig \in Files, NEW owner
    PROVE  \/ /\ SignedOutcome(f, sig, owner) = f.data
              /\ f.data \in EmptyData \/ (sig.signer = owner /\ sig.data = f.data)
           \/ /\ SignedOutcome(f, sig, owner) = "SignatureVerification"
              /\ SignedOutcome(f, sig, owner) \notin Data
BY DataAssumption DEF SignedOutcome, Failures

-----------------------------------------------------------------------------
(* The inductive invariant.                                                 *)

\* The bodies of the calls belong to operations that have started; an operation
\* that runs waits for a call to each of its paths, and one that reads got a
\* file with every reply that is ok.
OpsFresh ==
    \A op \in Ops : /\ ops[op].phase = "new" => ops[op].job = NoJob
                    /\ ops[op].phase # "settled" => ops[op].outcome = "none"

CallsStarted ==
    \A c \in calls : /\ ops[c.op].phase # "new"
                     /\ c.target \in TargetsOf(ops[c.op].job)
                     /\ c.reply = "ok" /\ ops[c.op].job.kind = "get" => c.got \in Files

CallsComplete ==
    \A op \in Ops : ops[op].phase = "running" =>
        /\ ops[op].job \in Jobs
        /\ \A target \in TargetsOf(ops[op].job) : \E c \in WaitedFor(op) : c.target = target

CallsInv == OpsFresh /\ CallsStarted /\ CallsComplete

\* f came from a putFile, to the path of that target.
IsPutFile(target, f) ==
    f # NoFile => \E put \in PutsMade : /\ f = PutFiles(put)[target]
                                        /\ target = "sig" => SignsApart(put.options)

FilesInv ==
    /\ \A target \in Targets : IsPutFile(target, hub[target])
    /\ \A c \in calls : IsPutFile(c.target, c.got)

GaiaInv == TypeOK /\ CallsInv /\ FilesInv /\ VerifiedReadIsAuthentic

LEMMA GaiaInit == Init => GaiaInv
<1> SUFFICES ASSUME Init PROVE GaiaInv
  OBVIOUS
<1>1. TypeOK
  BY GaiaHubAssumption DEF Init, TypeOK, OpStates, Outcomes, Replies
<1>2. CallsInv /\ FilesInv
  BY DEF Init, CallsInv, OpsFresh, CallsStarted, CallsComplete, FilesInv, IsPutFile
<1>3. VerifiedReadIsAuthentic
  BY DEF Init, VerifiedReadIsAuthentic, ReadsSignature, NoJob
<1> QED
  BY <1>1, <1>2, <1>3 DEF GaiaInv

\* The reads already made stay authentic when puts are added.
LEMMA ReadsKept ==
    ASSUME VerifiedReadIsAuthentic, PutsMade \subseteq PutsMade',
           \A op \in Ops : ops'[op].outcome \in Data =>
               ops'[op].outcome = ops[op].outcome /\ ops'[op].job = ops[op].job
    PROVE  VerifiedReadIsAuthentic'
BY DEF VerifiedReadIsAuthentic

LEMMA PutsKept ==
    ASSUME \A op \in Ops : IsPut(ops[op].job) => ops'[op].job = ops[op].job
    PROVE  PutsMade \subseteq PutsMade'
BY DEF PutsMade

-----------------------------------------------------------------------------
(* The steps of the hub.                                                    *)

\* A call gets its reply; the file it got, if any, is one the hub had.
LEMMA AnswerKeepsInv ==
    ASSUME GaiaInv, NEW c \in calls, NEW reply \in Replies, NEW got \in Files \cup {NoFile},
           Answer(c, reply, got), ops' = ops, last' = last,
           reply = "ok" /\ ops[c.op].job.kind = "get" => got \in Files,
           IsPutFile(c.target, got)
    PROVE  /\ calls' \subseteq Calls
           /\ CallsInv'
           /\ \A d \in calls' : IsPutFile(d.target, d.got)'
<1> DEFINE new == [c EXCEPT !.reply = reply, !.got = got]
<1>1. c \in Calls
  BY DEF GaiaInv, TypeOK
<1>2. new \in Calls /\ new.op = c.op /\ new.attempt = c.attempt /\ new.target = c.target
      /\ new.reply = reply /\ new.got = got
  BY <1>1 DEF Calls
<1>3. calls' \subseteq (calls \ {c}) \cup {new}
  BY DEF Answer
<1>4. calls' \subseteq Calls
  BY <1>2, <1>3 DEF GaiaInv, TypeOK
<1>5. PutsMade' = PutsMade
  BY DEF PutsMade
<1> HIDE DEF new
<1>6. \A d \in calls' : IsPutFile(d.target, d.got)'
  BY <1>2, <1>3, <1>5 DEF GaiaInv, FilesInv, IsPutFile
<1>7. CallsInv'
  <2>1. \A d \in calls' : /\ ops'[d.op].phase # "new"
                          /\ d.target \in TargetsOf(ops'[d.op].job)
                          /\ d.reply = "ok" /\ ops'[d.op].job.kind = "get" => d.got \in Files
    BY <1>2, <1>3 DEF GaiaInv, CallsInv, OpsFresh, CallsStarted, CallsComplete
  <2>2. ASSUME NEW op \in Ops, ops[op].phase = "running",
               NEW target \in TargetsOf(ops[op].job)
        PROVE  \E d \in WaitedFor(op)' : d.target = target
    <3>1. PICK d \in WaitedFor(op) : d.target = target
      BY <2>2 DEF GaiaInv, CallsInv, OpsFresh, CallsStarted, CallsComplete
    <3>2. CASE d # c
      BY <3>1, <3>2 DEF Answer, WaitedFor
    <3>3. CASE d = c
      <4>1. IsWaitedFor(c) /\ c.op = op
        BY <2>2, <3>1, <3>3 DEF IsWaitedFor, WaitedFor
      <4>2. new \in calls'
        BY <4>1 DEF Answer, new
      <4> QED
        BY <1>2, <3>1, <3>3, <4>1, <4>2 DEF WaitedFor, IsWaitedFor
    <3> QED
      BY <3>2, <3>3
  <2>3. \A op \in Ops : ops'[op].phase = "running" =>
          /\ ops'[op].job \in Jobs
          /\ \A target \in TargetsOf(ops'[op].job) : \E d \in WaitedFor(op)' : d.target = target
    BY <2>2 DEF GaiaInv, CallsInv, OpsFresh, CallsStarted, CallsComplete
  <2>4. \A op \in Ops : /\ ops'[op].phase = "new" => ops'[op].job = NoJob
                        /\ ops'[op].phase # "settled" => ops'[op].outcome = "none"
    BY DEF GaiaInv, CallsInv, OpsFresh, CallsStarted, CallsComplete
  <2> QED
    BY <2>1, <2>3, <2>4 DEF CallsInv, OpsFresh, CallsStarted, CallsComplete
<1> QED
  BY <1>4, <1>6, <1>7

LEMMA HubHandlesKeepsInv ==
    ASSUME GaiaInv, NEW c \in calls, NEW lost \in BOOLEAN, HubHandles(c, lost)
    PROVE  GaiaInv'
<1> DEFINE job == ops[c.op].job
           reply == IF lost THEN "network"
                    ELSE IF ~IsPut(job) /\ hub[c.target] = NoFile THEN "404" ELSE "ok"
           got == IF job.kind = "get" /\ ~lost THEN hub[c.target] ELSE NoFile
<1>1. c \in Calls /\ c.op \in Ops /\ c.target \in Targets /\ TypeOK
  BY DEF GaiaInv, TypeOK, Calls
<1>2. reply \in Replies /\ got \in Files \cup {NoFile}
  BY <1>1 DEF Replies, TypeOK
<1>3. Answer(c, reply, got) /\ ops' = ops /\ last' = last
      /\ faults' \in {faults, faults + 1} /\ (faults' # faults => faults < MaxFaults)
  BY DEF HubHandles, Fault
<1>4. reply = "ok" /\ job.kind = "get" => got \in Files
  BY <1>1 DEF IsPut, TypeOK
<1>5. IsPutFile(c.target, got)
  BY <1>1 DEF GaiaInv, FilesInv, IsPutFile
<1> HIDE DEF reply, got
<1>6. calls' \subseteq Calls /\ CallsInv' /\ \A d \in calls' : IsPutFile(d.target, d.got)'
  BY <1>2, <1>3, <1>4, <1>5, AnswerKeepsInv
<1>7. faults' \in 0..MaxFaults
  BY <1>1, <1>3, GaiaHubAssumption DEF TypeOK
<1>8. PutsMade' = PutsMade
  BY <1>3 DEF PutsMade
<1>9. hub' \in [Targets -> Files \cup {NoFile}]
      /\ \A target \in Targets : IsPutFile(target, hub[target])'
  <2>1. CASE job.kind = "put"
    <3>1. hub' = [hub EXCEPT ![c.target] = PutFiles(job.put)[c.target]]
      BY <2>1 DEF HubHandles
    <3>2. job # NoJob /\ job \in Jobs /\ job.put \in PutsMade
      BY <1>1, <2>1 DEF TypeOK, OpStates, PutsMade, IsPut, NoJob
    <3>3. job.put.data \in Data /\ job.put.options \in PutOptions
      BY <2>1, <3>2, GaiaHubAssumption DEF Jobs, IsJob
    <3>4. PutFiles(job.put)[c.target] \in Files
      BY <1>1, <3>3, PutFilesType
    <3>5. c.target = "sig" => SignsApart(job.put.options)
      BY <2>1 DEF GaiaInv, CallsInv, CallsStarted, TargetsOf, IsPut, ReadsSignature
    <3> HIDE DEF job
    <3>6. \A target \in Targets : IsPutFile(target, hub[target])'
      BY <1>1, <1>8, <3>1, <3>2, <3>5 DEF GaiaInv, FilesInv, IsPutFile, TypeOK
    <3> QED
      BY <1>1, <3>1, <3>4, <3>6 DEF TypeOK
  <2>2. CASE job.kind # "put"
    <3>1. hub' \in {hub, [hub EXCEPT ![c.target] = NoFile]}
      BY <2>2 DEF HubHandles
    <3> QED
      BY <1>1, <1>8, <3>1 DEF GaiaInv, FilesInv, IsPutFile, TypeOK
  <2> QED
    BY <2>1, <2>2
<1>10. VerifiedReadIsAuthentic'
  BY <1>3, <1>8 DEF GaiaInv, VerifiedReadIsAuthentic
<1> QED
  BY <1>1, <1>3, <1>6, <1>7, <1>9, <1>10 DEF GaiaInv, TypeOK, FilesInv

LEMMA CallFailsKeepsInv ==
    ASSUME GaiaInv, NEW c \in calls, NEW fault \in Faults, CallFails(c, fault)
    PROVE  GaiaInv'
<1>1. fault \in Replies /\ fault # "ok"
  BY GaiaHubAssumption DEF Replies
<1>2. Answer(c, fault, NoFile) /\ UNCHANGED <<hub, ops, last>>
      /\ faults < MaxFaults /\ faults' = faults + 1
  BY DEF CallFails, Fault
<1>3. calls' \subseteq Calls /\ CallsInv' /\ \A d \in calls' : IsPutFile(d.target, d.got)'
  <2>1. IsPutFile(c.target, NoFile)
    BY DEF IsPutFile
  <2> QED
    BY <1>1, <1>2, <2>1, AnswerKeepsInv
<1>4. faults' \in 0..MaxFaults
  BY <1>2, GaiaHubAssumption DEF GaiaInv, TypeOK
<1>5. \A target \in Targets : IsPutFile(target, hub[target])'
  BY <1>2 DEF GaiaInv, FilesInv, IsPutFile, PutsMade
<1>6. VerifiedReadIsAuthentic'
  BY <1>2 DEF GaiaInv, VerifiedReadIsAuthentic, PutsMade
<1> QED
  BY <1>2, <1>3, <1>4, <1>5, <1>6 DEF GaiaInv, TypeOK, FilesInv

-----------------------------------------------------------------------------
(* The steps of the operations.                                             *)

\* The bodies of a step that leaves the hub alone and whose calls are old ones or
\* have got nothing yet.
LEMMA FilesUntouched ==
    ASSUME FilesInv, PutsMade \subseteq PutsMade', hub' = hub,
           \A c \in calls' : c \in calls \/ c.got = NoFile
    PROVE  FilesInv'
<1>1. \A target \in Targets : IsPutFile(target, hub[target])'
  <2> TAKE target \in Targets
  <2>1. IsPutFile(target, hub[target])
    BY DEF FilesInv
  <2> QED
    BY <2>1 DEF IsPutFile
<1>2. \A c \in calls' : IsPutFile(c.target, c.got)'
  <2> TAKE c \in calls'
  <2>1. IsPutFile(c.target, c.got)
    BY DEF FilesInv, IsPutFile
  <2> QED
    BY <2>1 DEF IsPutFile
<1> QED
  BY <1>1, <1>2 DEF FilesInv

LEMMA NewCallsType ==
    ASSUME NEW op \in Ops, NEW job, NEW attempt \in 1..2
    PROVE  /\ NewCalls(op, job, attempt) \subseteq Calls
           /\ \A c \in NewCalls(op, job, attempt) :
                /\ c.op = op /\ c.attempt = attempt /\ c.target \in TargetsOf(job)
                /\ c.reply = "none" /\ c.got = NoFile
           /\ \A target \in TargetsOf(job) :
                \E c \in NewCalls(op, job, attempt) : c.target = target
<1>1. TargetsOf(job) \subseteq Targets
  BY DEF TargetsOf, Targets
<1>2. \A target \in Targets :
        [op |-> op, attempt |-> attempt, target |-> target, reply |-> "none", got |-> NoFile]
          \in Calls
  BY DEF Calls, Replies
<1>3. NewCalls(op, job, attempt) \subseteq Calls
  BY <1>1, <1>2 DEF NewCalls
<1>4. \A c \in NewCalls(op, job, attempt) :
        /\ c.op = op /\ c.attempt = attempt /\ c.target \in TargetsOf(job)
        /\ c.reply = "none" /\ c.got = NoFile
  BY DEF NewCalls
<1>5. ASSUME NEW target \in TargetsOf(job)
      PROVE  \E c \in NewCalls(op, job, attempt) : c.target = target
  <2>1. [op |-> op, attempt |-> attempt, target |-> target, reply |-> "none", got |-> NoFile]
          \in NewCalls(op, job, attempt)
    BY DEF NewCalls
  <2> QED
    BY <2>1
<1> QED
  BY <1>3, <1>4, <1>5

LEMMA StartKeepsInv ==
    ASSUME GaiaInv, NEW op \in Ops, NEW job \in JobsOf[op], Start(op, job)
    PROVE  GaiaInv'
<1>1. job \in Jobs
  BY GaiaHubAssumption DEF Jobs
<1>2. /\ ops[op].phase = "new" /\ ops[op].job = NoJob /\ ops[op].outcome = "none"
      /\ calls' = calls \cup NewCalls(op, job, 1)
      /\ last' = op /\ hub' = hub /\ faults' = faults
  BY DEF Start, GaiaInv, CallsInv, OpsFresh
<1> DEFINE company == IF Running = {} /\ calls = {} THEN "alone" ELSE "overlapped"
<1>3. company \in {"alone", "overlapped"}
  OBVIOUS
<1>4. /\ ops \in [Ops -> OpStates]
      /\ ops' = [other \in Ops |->
                   IF other = op
                   THEN [ops[op] EXCEPT !.job = job, !.phase = "running", !.attempt = 1,
                                        !.company = company]
                   ELSE IF other \in Running THEN [ops[other] EXCEPT !.company = "overlapped"]
                   ELSE ops[other]]
  BY DEF Start, GaiaInv, TypeOK
<1> HIDE DEF company
<1>5. /\ ops'[op].job = job /\ ops'[op].phase = "running"
      /\ ops'[op].outcome = "none" /\ ops'[op] \in OpStates /\ ops'[op].attempt = 1
  <2>1. ops[op] \in OpStates
        /\ ops'[op] = [ops[op] EXCEPT !.job = job, !.phase = "running", !.attempt = 1,
                                      !.company = company]
    BY <1>4
  <2>2. ops'[op].job = job /\ ops'[op].phase = "running" /\ ops'[op].attempt = 1
        /\ ops'[op].outcome = ops[op].outcome
    BY <2>1 DEF OpStates
  <2>3. ops'[op] = [job |-> job, phase |-> "running", attempt |-> 1,
                   outcome |-> ops[op].outcome, failed |-> ops[op].failed,
                   company |-> company]
    BY <2>1 DEF OpStates
  <2>4. ops[op].outcome \in Outcomes /\ ops[op].failed \in Replies
    BY <2>1 DEF OpStates
  <2>5. ops'[op] \in OpStates
    BY <1>1, <1>3, <2>3, <2>4 DEF OpStates
  <2> QED
    BY <1>2, <2>2, <2>5
<1>6. \A other \in Ops \ {op} :
        /\ ops'[other].job = ops[other].job /\ ops'[other].phase = ops[other].phase
        /\ ops'[other].attempt = ops[other].attempt
        /\ ops'[other].outcome = ops[other].outcome /\ ops'[other] \in OpStates
  <2> TAKE other \in Ops \ {op}
  <2>1. ops[other] \in OpStates
    BY <1>4
  <2>2. CASE other \in Running
    <3>1. ops'[other] = [ops[other] EXCEPT !.company = "overlapped"]
      BY <1>4, <2>2
    <3> QED
      BY <2>1, <3>1 DEF OpStates
  <2>3. CASE other \notin Running
    <3>1. ops'[other] = ops[other]
      BY <1>4, <2>3
    <3> QED
      BY <2>1, <3>1
  <2> QED
    BY <2>2, <2>3
<1>7. TypeOK'
  <2>1. ops' \in [Ops -> OpStates]
    <3>1. \A other \in Ops : ops'[other] \in OpStates
      BY <1>5, <1>6
    <3> QED
      BY <1>4, <3>1
  <2>2. calls' \subseteq Calls
    BY <1>2, NewCallsType DEF GaiaInv, TypeOK
  <2> QED
    BY <1>2, <2>1, <2>2 DEF GaiaInv, TypeOK
<1>8. PutsMade \subseteq PutsMade'
  BY <1>2, <1>6, PutsKept DEF IsPut, NoJob
<1>9. CallsInv'
  <2>1. \A other \in Ops : /\ ops'[other].phase = "new" => ops'[other].job = NoJob
                           /\ ops'[other].phase # "settled" => ops'[other].outcome = "none"
    BY <1>5, <1>6 DEF GaiaInv, CallsInv, OpsFresh, CallsStarted, CallsComplete
  <2>2. \A c \in calls' : /\ ops'[c.op].phase # "new"
                          /\ c.target \in TargetsOf(ops'[c.op].job)
                          /\ c.reply = "ok" /\ ops'[c.op].job.kind = "get" => c.got \in Files
    <3> TAKE c \in calls'
    <3>1. CASE c \in NewCalls(op, job, 1)
      BY <1>5, <3>1, NewCallsType
    <3>2. CASE c \in calls
      <4>1. c.op \in Ops /\ c.op # op
        <5>1. c \in Calls
          BY <3>2 DEF GaiaInv, TypeOK
        <5>2. ops[c.op].phase # "new"
          BY <3>2 DEF GaiaInv, CallsInv, CallsStarted
        <5> QED
          BY <1>2, <5>1, <5>2 DEF Calls
      <4> QED
        BY <1>6, <3>2, <4>1 DEF GaiaInv, CallsInv, CallsStarted
    <3> QED
      BY <1>2, <3>1, <3>2
  <2>3. \A other \in Ops : ops'[other].phase = "running" =>
          /\ ops'[other].job \in Jobs
          /\ \A target \in TargetsOf(ops'[other].job) :
               \E c \in WaitedFor(other)' : c.target = target
    <3> TAKE other \in Ops
    <3> HAVE ops'[other].phase = "running"
    <3>1. CASE other = op
      BY <1>1, <1>2, <1>5, <3>1, NewCallsType DEF WaitedFor
    <3>2. CASE other # op
      <4>1. ops[other].phase = "running" /\ ops'[other].job = ops[other].job
            /\ ops'[other].attempt = ops[other].attempt
        BY <1>6, <3>2
      <4>2. WaitedFor(other) \subseteq WaitedFor(other)'
        BY <1>2, <4>1 DEF WaitedFor
      <4> QED
        BY <4>1, <4>2 DEF GaiaInv, CallsInv, CallsComplete
    <3> QED
      BY <3>1, <3>2
  <2>4. OpsFresh'
    BY <2>1 DEF OpsFresh
  <2>5. CallsStarted'
    BY <2>2 DEF CallsStarted
  <2>6. CallsComplete'
    BY <2>3 DEF CallsComplete
  <2> QED
    BY <2>4, <2>5, <2>6 DEF CallsInv
<1>10. FilesInv'
  BY <1>2, <1>8, FilesUntouched, NewCallsType DEF GaiaInv
<1>11. VerifiedReadIsAuthentic'
  <2>1. "none" \notin Data
    BY DataAssumption
  <2> QED
    BY <1>5, <1>6, <1>8, <2>1, ReadsKept DEF GaiaInv
<1> QED
  BY <1>7, <1>9, <1>10, <1>11 DEF GaiaInv

\* An operation settles with an outcome; its own calls are no longer waited for.
LEMMA SettleKeepsInv ==
    ASSUME GaiaInv, NEW op \in Ops, NEW outcome \in Outcomes, NEW failed \in Replies,
           ops' = Settle(op, outcome, failed), calls' \subseteq calls,
           \A c \in calls : c.op # op => c \in calls',
           UNCHANGED <<hub, last, faults>>,
           ReadsSignature(ops[op].job) /\ outcome \in Data \ EmptyData =>
             \E put \in PutsMade : /\ SignsApart(put.options) /\ SigningKey(put.options) = Owner
                                   /\ put.data = outcome
    PROVE  GaiaInv'
<1>1. ops \in [Ops -> OpStates]
  BY DEF GaiaInv, TypeOK
<1>2. /\ ops'[op].phase = "settled" /\ ops'[op].job = ops[op].job
      /\ ops'[op].outcome = outcome
      /\ ops' \in [Ops -> OpStates]
      /\ \A other \in Ops \ {op} : ops'[other] = ops[other]
  <2> DEFINE o == ops[op]
             next == [o EXCEPT !.phase = "settled", !.outcome = outcome, !.failed = failed]
  <2>1. ops' = [ops EXCEPT ![op] = next]
    BY <1>1 DEF Settle, OpStates
  <2>2. o \in OpStates
    BY <1>1
  <2>3. /\ next.phase = "settled" /\ next.job = o.job /\ next.outcome = outcome
        /\ next \in OpStates
    BY <2>2 DEF OpStates
  <2> HIDE DEF next
  <2> QED
    BY <1>1, <2>1, <2>3
<1>3. TypeOK'
  BY <1>2 DEF GaiaInv, TypeOK
<1>4. PutsMade \subseteq PutsMade' /\ PutsMade' = PutsMade
  BY <1>2 DEF PutsMade
<1>5. CallsInv'
  <2>1. \A other \in Ops : /\ ops'[other].phase = "new" => ops'[other].job = NoJob
                           /\ ops'[other].phase # "settled" => ops'[other].outcome = "none"
    BY <1>2 DEF GaiaInv, CallsInv, OpsFresh, CallsStarted, CallsComplete
  <2>2. \A c \in calls' : /\ ops'[c.op].phase # "new"
                          /\ c.target \in TargetsOf(ops'[c.op].job)
                          /\ c.reply = "ok" /\ ops'[c.op].job.kind = "get" => c.got \in Files
    <3> TAKE c \in calls'
    <3>1. c \in calls /\ c \in Calls
      BY DEF GaiaInv, TypeOK
    <3>2. c.op \in Ops
      BY <3>1 DEF Calls
    <3>3. ops'[c.op].job = ops[c.op].job /\ (ops'[c.op].phase = "new" => ops[c.op].phase = "new")
      BY <1>2, <3>2
    <3> QED
      BY <3>1, <3>3 DEF GaiaInv, CallsInv, CallsStarted
  <2>3. \A other \in Ops : ops'[other].phase = "running" =>
          /\ ops'[other].job \in Jobs
          /\ \A target \in TargetsOf(ops'[other].job) :
               \E c \in WaitedFor(other)' : c.target = target
    <3> TAKE other \in Ops
    <3> HAVE ops'[other].phase = "running"
    <3>1. other # op /\ ops'[other] = ops[other]
      BY <1>2
    <3>2. WaitedFor(other) \subseteq WaitedFor(other)'
      BY <3>1 DEF WaitedFor
    <3> QED
      BY <3>1, <3>2 DEF GaiaInv, CallsInv, OpsFresh, CallsStarted, CallsComplete
  <2>4. OpsFresh'
    BY <2>1 DEF OpsFresh
  <2>5. CallsStarted'
    BY <2>2 DEF CallsStarted
  <2>6. CallsComplete'
    BY <2>3 DEF CallsComplete
  <2> QED
    BY <2>4, <2>5, <2>6 DEF CallsInv
<1>6. FilesInv'
  BY <1>4, FilesUntouched DEF GaiaInv
<1>7. VerifiedReadIsAuthentic'
  BY <1>2, <1>4 DEF GaiaInv, VerifiedReadIsAuthentic
<1> QED
  BY <1>3, <1>5, <1>6, <1>7 DEF GaiaInv

LEMMA PutThrowsKeepsInv ==
    ASSUME GaiaInv, NEW op \in Ops, NEW job \in JobsOf[op], PutThrows(op, job)
    PROVE  GaiaInv'
<1>1. "TooLargeOrNoKey" \in Outcomes /\ "TooLargeOrNoKey" \notin Data /\ "none" \in Replies
  BY DataAssumption DEF Outcomes, Replies
<1>2. ops' = Settle(op, "TooLargeOrNoKey", "none") /\ UNCHANGED <<hub, calls, last, faults>>
  BY DEF PutThrows
<1> QED
  BY <1>1, <1>2, SettleKeepsInv

\* The files that a getFileSignedUnencrypted compares.
LEMMA GotFile ==
    ASSUME GaiaInv, NEW op \in Ops, ops[op].phase = "running", ops[op].job.kind = "get",
           \A c \in WaitedFor(op) : c.reply = "ok",
           NEW target \in TargetsOf(ops[op].job)
    PROVE  Got(op, target) \in Files /\ IsPutFile(target, Got(op, target))
<1> DEFINE d == CHOOSE c \in WaitedFor(op) : c.target = target
<1>1. \E c \in WaitedFor(op) : c.target = target
  BY DEF GaiaInv, CallsInv, CallsComplete
<1>2. d \in WaitedFor(op) /\ d.target = target
  BY <1>1
<1>3. d \in calls /\ d.op = op /\ d.reply = "ok"
  BY <1>2 DEF WaitedFor
<1>4. d.got \in Files /\ IsPutFile(target, d.got)
  BY <1>2, <1>3 DEF GaiaInv, CallsInv, CallsStarted, FilesInv
<1>5. Got(op, target) = d.got
  BY DEF Got
<1> QED
  BY <1>4, <1>5

\* The signature file that matched was put by the owner, with these contents.
LEMMA VerifiedValue ==
    ASSUME GaiaInv, NEW op \in Ops, ops[op].phase = "running", ReadsSignature(ops[op].job),
           \A c \in WaitedFor(op) : c.reply = "ok"
    PROVE  /\ Value(op) \in Outcomes
           /\ Value(op) \in Data \ EmptyData =>
                \E put \in PutsMade : /\ SignsApart(put.options)
                                      /\ SigningKey(put.options) = Owner
                                      /\ put.data = Value(op)
<1> DEFINE f == Got(op, "file")
           sig == Got(op, "sig")
<1>1. TargetsOf(ops[op].job) = Targets /\ ops[op].job.kind = "get"
  BY DEF TargetsOf, ReadsSignature
<1>2. f \in Files /\ sig \in Files /\ IsPutFile("sig", sig)
  BY <1>1, GotFile DEF Targets
<1>3. Value(op) = SignedOutcome(f, sig, Owner)
  BY DEF Value
<1> HIDE DEF f, sig
<1>4. CASE /\ SignedOutcome(f, sig, Owner) = f.data
           /\ sig.signer = Owner /\ sig.data = f.data /\ f.data \notin EmptyData
  <2>1. sig # NoFile
    BY <1>2, NoFileAssumption
  <2>2. PICK put \in PutsMade : sig = PutFiles(put)["sig"] /\ SignsApart(put.options)
    BY <1>2, <2>1 DEF IsPutFile
  <2>3. sig = SignatureFile(put.options, put.data)
    BY <2>2 DEF PutFiles, Targets
  <2>4. put.data = f.data /\ SigningKey(put.options) = Owner
    BY <1>4, <2>3 DEF SignatureFile
  <2>5. f.data \in Data
    BY <1>2 DEF Files
  <2> QED
    BY <1>3, <1>4, <2>2, <2>4, <2>5 DEF Outcomes
<1>5. CASE /\ SignedOutcome(f, sig, Owner) = "SignatureVerification"
           /\ SignedOutcome(f, sig, Owner) \notin Data
  BY <1>3, <1>5 DEF Outcomes, Failures
<1>6. CASE SignedOutcome(f, sig, Owner) = f.data /\ f.data \in EmptyData
  BY <1>2, <1>3, <1>6 DEF Outcomes, Files
<1> QED
  BY <1>2, <1>4, <1>5, <1>6, SignedOutcomeValue

LEMMA SucceedKeepsInv ==
    ASSUME GaiaInv, NEW op \in Ops, Succeed(op)
    PROVE  GaiaInv'
<1>1. /\ ops[op].phase = "running" /\ \A c \in WaitedFor(op) : c.reply = "ok"
      /\ ops' = Settle(op, Value(op), "none") /\ calls' = calls \ WaitedFor(op)
      /\ UNCHANGED <<hub, last, faults>>
  BY DEF Succeed, Running
<1>2. /\ Value(op) \in Outcomes
      /\ ReadsSignature(ops[op].job) /\ Value(op) \in Data \ EmptyData =>
           \E put \in PutsMade : /\ SignsApart(put.options)
                                 /\ SigningKey(put.options) = Owner
                                 /\ put.data = Value(op)
  <2>1. CASE ReadsSignature(ops[op].job)
    BY <1>1, <2>1, VerifiedValue
  <2>2. CASE ops[op].job.kind = "get" /\ ~ReadsSignature(ops[op].job)
    <3>1. "file" \in TargetsOf(ops[op].job)
      BY DEF TargetsOf, Targets
    <3>2. Got(op, "file") \in Files
      BY <1>1, <2>2, <3>1, GotFile
    <3>3. Value(op) = GetOutcome(ops[op].job.options, Got(op, "file"), Owner)
      BY <2>2 DEF Value
    <3> QED
      BY <2>2, <3>2, <3>3, GetOutcomeType DEF Outcomes
  <2>3. CASE ops[op].job.kind # "get" /\ ~ReadsSignature(ops[op].job)
    <3>1. Value(op) = "done"
      BY <2>3 DEF Value
    <3> QED
      BY <2>3, <3>1 DEF Outcomes
  <2> QED
    BY <2>1, <2>2, <2>3
<1>3. \A c \in calls : c.op # op => c \in calls'
  BY <1>1 DEF WaitedFor
<1>4. "none" \in Replies
  BY DEF Replies
<1> QED
  BY <1>1, <1>2, <1>3, <1>4, SettleKeepsInv

LEMMA RejectKeepsInv ==
    ASSUME GaiaInv, NEW op \in Ops, Reject(op)
    PROVE  GaiaInv'
<1>1. PICK c \in WaitedFor(op) :
        ops' = Settle(op, IF ReadsSignature(ops[op].job) /\ c.target = "sig" /\ c.reply = "404"
                          THEN "SignatureVerification" ELSE "failed", c.reply)
  BY DEF Reject
<1> DEFINE outcome == IF ReadsSignature(ops[op].job) /\ c.target = "sig" /\ c.reply = "404"
                      THEN "SignatureVerification" ELSE "failed"
<1>2. outcome \in Outcomes /\ outcome \notin Data
  BY DataAssumption DEF Outcomes, Failures
<1>3. c.reply \in Replies
  BY DEF WaitedFor, GaiaInv, TypeOK, Calls
<1>4. calls' = Unheard(op) /\ UNCHANGED <<hub, last, faults>>
  BY DEF Reject
<1>5. calls' \subseteq calls /\ \A d \in calls : d.op # op => d \in calls'
  BY <1>4 DEF Unheard, WaitedFor
<1> HIDE DEF outcome
<1> QED
  BY <1>1, <1>2, <1>3, <1>4, <1>5, SettleKeepsInv DEF outcome

LEMMA RetryKeepsInv ==
    ASSUME GaiaInv, NEW op \in Ops, Retry(op)
    PROVE  GaiaInv'
<1> DEFINE new == NewCalls(op, ops[op].job, 2)
<1>1. /\ ops[op].phase = "running" /\ calls' = Unheard(op) \cup new
      /\ ops' = [ops EXCEPT ![op].attempt = 2] /\ UNCHANGED <<hub, last, faults>>
  BY DEF Retry, Running
<1>2. ops \in [Ops -> OpStates]
  BY DEF GaiaInv, TypeOK
<1>3. /\ ops' \in [Ops -> OpStates] /\ ops'[op].attempt = 2
      /\ \A other \in Ops : /\ ops'[other].job = ops[other].job
                            /\ ops'[other].phase = ops[other].phase
                            /\ ops'[other].outcome = ops[other].outcome
                            /\ other # op => ops'[other].attempt = ops[other].attempt
  BY <1>1, <1>2 DEF OpStates
<1>4. /\ new \subseteq Calls
      /\ \A c \in new : /\ c.op = op /\ c.attempt = 2 /\ c.target \in TargetsOf(ops[op].job)
                        /\ c.reply = "none" /\ c.got = NoFile
      /\ \A target \in TargetsOf(ops[op].job) : \E c \in new : c.target = target
  BY NewCallsType
<1>5. Unheard(op) \subseteq calls /\ \A c \in calls : c.op # op => c \in Unheard(op)
  BY DEF Unheard, WaitedFor
<1> HIDE DEF new
<1>6. TypeOK'
  BY <1>1, <1>3, <1>4, <1>5 DEF GaiaInv, TypeOK
<1>7. PutsMade' = PutsMade
  BY <1>3 DEF PutsMade
<1>8. OpsFresh'
  BY <1>3 DEF GaiaInv, CallsInv, OpsFresh
<1>9. CallsStarted'
  <2>1. \A c \in calls' : c.op \in Ops
    BY <1>6 DEF TypeOK, Calls
  <2>2. \A c \in calls' : /\ ops[c.op].phase # "new"
                          /\ c.target \in TargetsOf(ops[c.op].job)
                          /\ c.reply = "ok" /\ ops[c.op].job.kind = "get" => c.got \in Files
    BY <1>1, <1>4, <1>5 DEF GaiaInv, CallsInv, CallsStarted
  <2> QED
    BY <1>3, <2>1, <2>2 DEF CallsStarted
<1>10. CallsComplete'
  <2>1. ASSUME NEW other \in Ops, ops[other].phase = "running",
               NEW target \in TargetsOf(ops[other].job)
        PROVE  \E c \in WaitedFor(other)' : c.target = target
    <3>1. CASE other = op
      BY <1>1, <1>3, <1>4, <3>1 DEF WaitedFor
    <3>2. CASE other # op
      BY <1>1, <1>3, <1>5, <2>1, <3>2 DEF GaiaInv, CallsInv, CallsComplete, WaitedFor
    <3> QED
      BY <3>1, <3>2
  <2> QED
    BY <1>3, <2>1 DEF GaiaInv, CallsInv, CallsComplete
<1>11. FilesInv'
  BY <1>1, <1>4, <1>5, <1>7, FilesUntouched DEF GaiaInv
<1>12. VerifiedReadIsAuthentic'
  BY <1>3, <1>7 DEF GaiaInv, VerifiedReadIsAuthentic
<1> QED
  BY <1>6, <1>8, <1>9, <1>10, <1>11, <1>12 DEF GaiaInv, CallsInv

-----------------------------------------------------------------------------
LEMMA GaiaInvariant == Spec => []GaiaInv
<1>1. GaiaInv /\ [Next]_vars => GaiaInv'
  <2> SUFFICES ASSUME GaiaInv, [Next]_vars PROVE GaiaInv'
    OBVIOUS
  <2>1. CASE UNCHANGED vars
    BY <2>1 DEF vars, GaiaInv, TypeOK, CallsInv, OpsFresh, CallsStarted, CallsComplete,
               WaitedFor, FilesInv, IsPutFile, VerifiedReadIsAuthentic, PutsMade
  <2>2. ASSUME NEW op \in Ops, NEW job \in JobsOf[op], Start(op, job) \/ PutThrows(op, job)
        PROVE  GaiaInv'
    BY <2>2, StartKeepsInv, PutThrowsKeepsInv
  <2>3. ASSUME NEW op \in Ops, Succeed(op) \/ Retry(op) \/ Reject(op)
        PROVE  GaiaInv'
    BY <2>3, SucceedKeepsInv, RetryKeepsInv, RejectKeepsInv
  <2>4. ASSUME NEW c \in calls, NEW lost \in BOOLEAN, HubHandles(c, lost)
        PROVE  GaiaInv'
    BY <2>4, HubHandlesKeepsInv
  <2>5. ASSUME NEW c \in calls, NEW fault \in Faults, CallFails(c, fault)
        PROVE  GaiaInv'
    BY <2>5, CallFailsKeepsInv
  <2> QED
    BY <2>1, <2>2, <2>3, <2>4, <2>5 DEF Next
<1> QED
  BY <1>1, GaiaInit, PTL DEF Spec

\* The two files of the path, the calls and the operations have their types; no
\* operation makes more than two attempts.
THEOREM GaiaTypeCorrect == Spec => []TypeOK
BY GaiaInvariant, PTL DEF GaiaInv

\* getFileSignedUnencrypted only returns contents some putFile signed with the
\* owner's key, or an empty string, for any number of writers and readers and any interleaving of
\* their uploads, retries, deletes and reads.
THEOREM VerifiedReads == Spec => []VerifiedReadIsAuthentic
BY GaiaInvariant, PTL DEF GaiaInv

-----------------------------------------------------------------------------
(* Decrypted reads.                                                         *)

\* What a decrypting read takes: a cipher object for its key, signed by the owner, or with no
\* signature in it if the read does not ask to verify.
TakenFor(f, o) ==
    /\ Parsed(f).to = DecryptionKey(o)
    /\ \/ Parsed(f).form = "signedCipher" /\ Parsed(f).signer = Owner
       \/ /\ Parsed(f).form = "cipherObject" /\ ~o.verify
          /\ ~({"signature", "publicKey"} \subseteq Words(f))

\* getFile hands out the data of such a file only, if it is asked to decrypt.
LEMMA DecryptedValue ==
    ASSUME NEW f \in Files, NEW o, o.decrypt # "false",
           GetOutcome(o, f, Owner) \in Data
    PROVE  TakenFor(f, o) /\ GetOutcome(o, f, Owner) = Parsed(f).data
<1> DEFINE key == DecryptionKey(o)
           verify == o.verify \/ {"signature", "publicKey"} \subseteq Words(f)
<1>1. \A x \in Failures : x \notin Data
  BY DataAssumption
<1>2. Encrypted(f, key) \in Data =>
         /\ Parsed(f).form = "cipherObject" /\ Parsed(f).to = key
         /\ Encrypted(f, key) = Parsed(f).data
  BY <1>1 DEF Encrypted, Decrypt, Failures
<1>3. SignedEncrypted(f, key, Owner) \in Data =>
         /\ Parsed(f).form = "signedCipher" /\ Parsed(f).signer = Owner /\ Parsed(f).to = key
         /\ SignedEncrypted(f, key, Owner) = Parsed(f).data
  BY <1>1 DEF SignedEncrypted, Decrypt, Failures
<1>4. "NotEncrypted" \notin Data /\ "NoPrivateKey" \notin Data
  BY <1>1 DEF Failures
<1>5. \/ GetOutcome(o, f, Owner) \in {"NotEncrypted", "NoPrivateKey"}
      \/ ~verify /\ GetOutcome(o, f, Owner) = Encrypted(f, key)
      \/ GetOutcome(o, f, Owner) = SignedEncrypted(f, key, Owner)
  BY DEF GetOutcome
<1> QED
  BY <1>2, <1>3, <1>4, <1>5 DEF TakenFor

\* Whose file that is: putFile encrypted it, or put its text in plain.
LEMMA TakenPut ==
    ASSUME NEW put, NEW o, NEW f, f = ContentFile(put.options, put.data), TakenFor(f, o)
    PROVE  IsPutEncrypted(put, o, Parsed(f).data) \/ IsPutAsText(put, o, Parsed(f).data)
<1>1. CASE Truthy(put.options.encrypt)
  <2>1. /\ f.form \in {"signedCipher", "cipher"} /\ f.data = put.data
        /\ f.to = Recipient(put.options) /\ f.signer = put.options.privateKey
    BY <1>1 DEF ContentFile
  <2>2. Parsed(f) = f
    BY <2>1 DEF Parsed
  <2> QED
    BY <1>1, <2>1, <2>2 DEF TakenFor, IsPutEncrypted
<1>2. CASE ~Truthy(put.options.encrypt)
  <2>1. f.form = "plain" /\ f.data = put.data
    BY <1>2 DEF ContentFile, PlainFile
  <2>2. f.data \in DOMAIN Embedded
    BY <2>1 DEF TakenFor, Parsed
  <2>3. Parsed(f) = Embedded[put.data] /\ Words(f) = WordsOf[put.data]
    BY <2>1, <2>2 DEF Parsed, Words
  <2> QED
    BY <1>2, <2>1, <2>2, <2>3 DEF TakenFor, IsPutAsText
<1> QED
  BY <1>1, <1>2

\* Reads that were made stay reads of what was put.
LEMMA DecryptedKept ==
    ASSUME DecryptedReadIsEncrypted, PutsMade \subseteq PutsMade',
           \A op \in Ops : ops'[op].outcome \in Data =>
               ops'[op].outcome = ops[op].outcome /\ ops'[op].job = ops[op].job
    PROVE  DecryptedReadIsEncrypted'
BY DEF DecryptedReadIsEncrypted

\* What a step of an operation that ends does to the operations.
LEMMA SettleEffect ==
    ASSUME TypeOK, NEW op \in Ops, NEW outcome, NEW failed, ops' = Settle(op, outcome, failed)
    PROVE  /\ ops'[op].job = ops[op].job /\ ops'[op].company = ops[op].company
           /\ ops'[op].outcome = outcome /\ ops'[op].phase = "settled"
           /\ \A other \in Ops \ {op} : ops'[other] = ops[other]
           /\ PutsMade' = PutsMade
<1>1. ops \in [Ops -> OpStates]
  BY DEF TypeOK
<1> DEFINE next == [ops[op] EXCEPT !.phase = "settled", !.outcome = outcome, !.failed = failed]
<1>2. ops' = [ops EXCEPT ![op] = next]
  BY <1>1 DEF Settle, OpStates
<1>3. /\ next.phase = "settled" /\ next.job = ops[op].job /\ next.outcome = outcome
      /\ next.company = ops[op].company
  BY <1>1 DEF OpStates
<1> HIDE DEF next
<1>4. /\ ops'[op] = next
      /\ \A other \in Ops \ {op} : ops'[other] = ops[other]
  BY <1>1, <1>2
<1> QED
  BY <1>3, <1>4 DEF PutsMade

\* Only the operation that starts gets a job, and all others lose their loneliness.
LEMMA StartEffect ==
    ASSUME GaiaInv, NEW op \in Ops, NEW job \in JobsOf[op], Start(op, job)
    PROVE  /\ ops'[op].job = job /\ ops'[op].outcome = "none"
           /\ ops'[op].company = "alone" => Running = {} /\ calls = {}
           /\ \A other \in Ops \ {op} : /\ ops'[other].job = ops[other].job
                                        /\ ops'[other].outcome = ops[other].outcome
           /\ PutsMade \subseteq PutsMade'
<1>1. ops \in [Ops -> OpStates] /\ ops[op].job = NoJob /\ ops[op].outcome = "none"
  BY DEF Start, GaiaInv, TypeOK, CallsInv, OpsFresh
<1>2. ops[op] \in OpStates
  BY <1>1
<1> DEFINE company == IF Running = {} /\ calls = {} THEN "alone" ELSE "overlapped"
<1>3. ops'[op] = [ops[op] EXCEPT !.job = job, !.phase = "running", !.attempt = 1,
                                 !.company = company]
  BY <1>1 DEF Start
<1>4. ops'[op].job = job /\ ops'[op].outcome = ops[op].outcome /\ ops'[op].company = company
  BY <1>2, <1>3 DEF OpStates
<1>5. ASSUME NEW other \in Ops \ {op}
      PROVE  ops'[other].job = ops[other].job /\ ops'[other].outcome = ops[other].outcome
  <2>1. ops[other] \in OpStates
    BY <1>1
  <2>2. ops'[other] \in {ops[other], [ops[other] EXCEPT !.company = "overlapped"]}
    BY <1>1 DEF Start
  <2> QED
    BY <2>1, <2>2 DEF OpStates
<1>6. PutsMade \subseteq PutsMade'
  BY <1>1, <1>5, PutsKept DEF IsPut, NoJob
<1> QED
  BY <1>1, <1>4, <1>5, <1>6

\* A retry changes nothing but the attempt.
LEMMA RetryEffect ==
    ASSUME TypeOK, NEW op \in Ops, Retry(op)
    PROVE  /\ \A other \in Ops : /\ ops'[other].job = ops[other].job
                                 /\ ops'[other].outcome = ops[other].outcome
                                 /\ ops'[other].company = ops[other].company
           /\ PutsMade' = PutsMade
<1>1. ops \in [Ops -> OpStates] /\ ops' = [ops EXCEPT ![op].attempt = 2]
  BY DEF TypeOK, Retry
<1>2. \A other \in Ops : /\ ops'[other].job = ops[other].job
                         /\ ops'[other].outcome = ops[other].outcome
                         /\ ops'[other].company = ops[other].company
  BY <1>1 DEF OpStates
<1> QED
  BY <1>2 DEF PutsMade

\* The one step at which a read gets its value.
LEMMA SucceedDecrypts ==
    ASSUME GaiaInv, DecryptedReadIsEncrypted, NEW op \in Ops, Succeed(op)
    PROVE  DecryptedReadIsEncrypted'
<1>1. /\ ops[op].phase = "running" /\ \A c \in WaitedFor(op) : c.reply = "ok"
      /\ ops' = Settle(op, Value(op), "none") /\ TypeOK
  BY DEF Succeed, Running, GaiaInv
<1>2. /\ ops'[op].job = ops[op].job /\ ops'[op].outcome = Value(op)
      /\ \A other \in Ops \ {op} : ops'[other] = ops[other]
      /\ PutsMade' = PutsMade
  BY <1>1, SettleEffect
<1>3. ASSUME ops[op].job.kind = "get", ops[op].job.options.decrypt # "false", Value(op) \in Data
      PROVE  \E put \in PutsMade : \/ IsPutEncrypted(put, ops[op].job.options, Value(op))
                                 \/ IsPutAsText(put, ops[op].job.options, Value(op))
  <2> DEFINE f == Got(op, "file")
             o == ops[op].job.options
  <2>1. ~ReadsSignature(ops[op].job)
    BY <1>3 DEF ReadsSignature
  <2>2. Value(op) = GetOutcome(o, f, Owner)
    BY <1>3, <2>1 DEF Value
  <2>3. "file" \in TargetsOf(ops[op].job)
    BY DEF TargetsOf, Targets
  <2>4. f \in Files /\ IsPutFile("file", f)
    BY <1>1, <1>3, <2>3, GotFile
  <2>5. o.decrypt # "false" /\ GetOutcome(o, f, Owner) \in Data
    BY <1>3, <2>2
  <2> HIDE DEF f, o
  <2>6. TakenFor(f, o) /\ Value(op) = Parsed(f).data
    BY <2>2, <2>4, <2>5, DecryptedValue
  <2>7. PICK put \in PutsMade : f = PutFiles(put)["file"]
    BY <2>4, NoFileAssumption DEF IsPutFile
  <2>8. f = ContentFile(put.options, put.data)
    BY <2>7 DEF PutFiles, Targets
  <2>9. IsPutEncrypted(put, o, Value(op)) \/ IsPutAsText(put, o, Value(op))
    BY <2>6, <2>8, TakenPut
  <2> QED
    BY <2>9 DEF o
<1> QED
  BY <1>2, <1>3 DEF DecryptedReadIsEncrypted

LEMMA StepDecrypts ==
    ASSUME GaiaInv, DecryptedReadIsEncrypted, [Next]_vars
    PROVE  DecryptedReadIsEncrypted'
<1>1. /\ "none" \notin Data /\ "failed" \notin Data /\ "TooLargeOrNoKey" \notin Data
      /\ "SignatureVerification" \notin Data /\ TypeOK
  BY DataAssumption DEF Failures, GaiaInv
<1>2. CASE UNCHANGED ops
  BY <1>2 DEF DecryptedReadIsEncrypted, PutsMade
<1>3. ASSUME NEW op \in Ops, NEW job \in JobsOf[op], Start(op, job)
      PROVE  DecryptedReadIsEncrypted'
  BY <1>1, <1>3, StartEffect, DecryptedKept
<1>4. ASSUME NEW op \in Ops, NEW job \in JobsOf[op], PutThrows(op, job)
      PROVE  DecryptedReadIsEncrypted'
  <2>1. ops' = Settle(op, "TooLargeOrNoKey", "none")
    BY <1>4 DEF PutThrows
  <2> QED
    BY <1>1, <2>1, SettleEffect, DecryptedKept
<1>5. ASSUME NEW op \in Ops, Retry(op)
      PROVE  DecryptedReadIsEncrypted'
  BY <1>1, <1>5, RetryEffect, DecryptedKept
<1>6. ASSUME NEW op \in Ops, Reject(op)
      PROVE  DecryptedReadIsEncrypted'
  <2>1. PICK outcome, failed : /\ outcome \in {"SignatureVerification", "failed"}
                                 /\ ops' = Settle(op, outcome, failed)
    BY <1>6 DEF Reject
  <2> QED
    BY <1>1, <2>1, SettleEffect, DecryptedKept
<1>7. ASSUME NEW c \in calls, \/ \E lost \in BOOLEAN : HubHandles(c, lost)
                              \/ \E fault \in Faults : CallFails(c, fault)
      PROVE  UNCHANGED ops
  BY <1>7 DEF HubHandles, CallFails
<1> QED
  BY <1>2, <1>3, <1>4, <1>5, <1>6, <1>7, SucceedDecrypts DEF Next, vars

\* A getFile that asks to decrypt only returns contents that were encrypted for its key and
\* signed by the owner, or were put as the text of an unsigned cipher object, whoever else writes
\* or deletes the file, at whatever time.
THEOREM DecryptedReads == Spec => []DecryptedReadIsEncrypted
<1>1. Init => DecryptedReadIsEncrypted
  BY DEF Init, DecryptedReadIsEncrypted, NoJob
<1>2. GaiaInv /\ DecryptedReadIsEncrypted /\ [Next]_vars => DecryptedReadIsEncrypted'
  BY StepDecrypts
<1> QED
  BY <1>1, <1>2, GaiaInvariant, PTL DEF Spec

-----------------------------------------------------------------------------
(* Lone puts.                                                               *)

Stored(op, target) == hub[target] = PutFiles(ops[op].job.put)[target]

\* While the operation that started last is a put that found nobody else at work, every call
\* there is, of either attempt and waited for or not, is one of its own: they can only
\* write what the others wrote, and what was answered with ok is there.
LoneInv ==
    \A op \in Ops :
        op = last /\ IsPut(ops[op].job) /\ ops[op].company = "alone" =>
            /\ \A c \in calls : c.op = op /\ (c.reply = "ok" => Stored(op, c.target))
            /\ ops[op].outcome = "done" =>
                 \A target \in TargetsOf(ops[op].job) : Stored(op, target)

\* A step of an operation that has started: new calls, if any, are of an operation that
\* has calls already, and one that resolves had an ok for each of its paths.
LEMMA LoneKept ==
    ASSUME LoneInv, hub' = hub, last' = last,
           \A op \in Ops : ops'[op].job = ops[op].job /\ ops'[op].company = ops[op].company,
           \A c \in calls' : \/ c \in calls
                             \/ c.reply = "none" /\ \E d \in calls : d.op = c.op,
           \A op \in Ops : ops'[op].outcome = "done" =>
               \/ ops[op].outcome = "done"
               \/ \A target \in TargetsOf(ops[op].job) :
                    \E c \in calls : c.op = op /\ c.target = target /\ c.reply = "ok"
    PROVE  LoneInv'
<1> SUFFICES ASSUME NEW op \in Ops, op = last, IsPut(ops[op].job), ops[op].company = "alone"
             PROVE  /\ \A c \in calls' : c.op = op /\ (c.reply = "ok" => Stored(op, c.target))
                    /\ ops'[op].outcome = "done" =>
                         \A target \in TargetsOf(ops[op].job) : Stored(op, target)
  BY DEF LoneInv, Stored
<1>1. /\ \A c \in calls : c.op = op /\ (c.reply = "ok" => Stored(op, c.target))
      /\ ops[op].outcome = "done" => \A target \in TargetsOf(ops[op].job) : Stored(op, target)
  BY DEF LoneInv
<1> QED
  BY <1>1

\* The hub's own steps, of which the calls of the lone put are the only ones.
LEMMA LoneHub ==
    ASSUME GaiaInv, LoneInv, NEW c \in calls,
           \/ \E lost \in BOOLEAN : HubHandles(c, lost)
           \/ \E fault \in Faults : CallFails(c, fault)
    PROVE  LoneInv'
<1>1. ops' = ops /\ last' = last /\ c \in Calls /\ c.op \in Ops /\ c.target \in Targets
      /\ hub \in [Targets -> Files \cup {NoFile}]
  BY DEF HubHandles, CallFails, GaiaInv, TypeOK, Calls
<1> SUFFICES ASSUME NEW op \in Ops, op = last, IsPut(ops[op].job), ops[op].company = "alone"
             PROVE  /\ \A d \in calls' : d.op = op /\ (d.reply = "ok" => Stored(op, d.target)')
                    /\ ops[op].outcome = "done" =>
                         \A target \in TargetsOf(ops[op].job) : Stored(op, target)'
  BY <1>1 DEF LoneInv
<1>2. /\ \A d \in calls : d.op = op /\ (d.reply = "ok" => Stored(op, d.target))
      /\ ops[op].outcome = "done" => \A target \in TargetsOf(ops[op].job) : Stored(op, target)
  BY DEF LoneInv
<1>3. PICK reply, got : /\ Answer(c, reply, got)
                        /\ \/ hub' = hub /\ reply # "ok"
                           \/ hub' = [hub EXCEPT ![c.target] = PutFiles(ops[op].job.put)[c.target]]
  <2>1. CASE \E lost \in BOOLEAN : HubHandles(c, lost)
    <3>1. PICK lost \in BOOLEAN : HubHandles(c, lost)
      BY <2>1
    <3>2. ops[c.op].job.kind = "put"
      BY <1>2 DEF IsPut
    <3>3. hub' = [hub EXCEPT ![c.target] = PutFiles(ops[op].job.put)[c.target]]
      BY <1>2, <3>1, <3>2 DEF HubHandles
    <3>4. \E reply, got : Answer(c, reply, got)
      BY <3>1 DEF HubHandles
    <3> QED
      BY <3>3, <3>4
  <2>2. CASE \E fault \in Faults : CallFails(c, fault)
    BY <2>2, GaiaHubAssumption DEF CallFails
  <2> QED
    BY <2>1, <2>2
<1>4. \A target \in Targets : Stored(op, target) => Stored(op, target)'
  BY <1>1, <1>3 DEF Stored
<1>5. reply = "ok" => Stored(op, c.target)'
  BY <1>1, <1>3 DEF Stored
<1>6. ASSUME NEW d \in calls'
      PROVE  d.op = op /\ (d.reply = "ok" => Stored(op, d.target)')
  <2> DEFINE new == [c EXCEPT !.reply = reply, !.got = got]
  <2>1. new.op = c.op /\ new.target = c.target /\ new.reply = reply
    BY <1>1 DEF Calls
  <2>2. d \in calls \/ d = new
    BY <1>3 DEF Answer
  <2>3. CASE d \in calls
    <3>1. d.target \in Targets
      BY <2>3 DEF GaiaInv, TypeOK, Calls
    <3> QED
      BY <1>2, <1>4, <2>3, <3>1
  <2> HIDE DEF new
  <2>4. CASE d = new
    BY <1>2, <1>5, <2>1, <2>4
  <2> QED
    BY <2>2, <2>3, <2>4
<1>7. TargetsOf(ops[op].job) \subseteq Targets
  BY DEF TargetsOf, Targets
<1> QED
  BY <1>2, <1>4, <1>6, <1>7

LEMMA LoneStep ==
    ASSUME GaiaInv, LoneInv, [Next]_vars
    PROVE  LoneInv'
<1>1. TypeOK
  BY DEF GaiaInv
<1>2. CASE UNCHANGED vars
  BY <1>2, LoneKept DEF vars
<1>3. ASSUME NEW op \in Ops, NEW job \in JobsOf[op], Start(op, job)
      PROVE  LoneInv'
  <2>1. /\ last' = op /\ ops'[op].outcome = "none"
        /\ calls' = calls \cup NewCalls(op, job, 1)
        /\ ops'[op].company = "alone" => calls = {}
    BY <1>3, StartEffect DEF Start
  <2>2. \A c \in NewCalls(op, job, 1) : c.op = op /\ c.reply = "none"
    BY NewCallsType
  <2> QED
    BY <2>1, <2>2 DEF LoneInv
<1>4. ASSUME NEW op \in Ops, NEW job \in JobsOf[op], PutThrows(op, job)
      PROVE  LoneInv'
  <2>1. ops' = Settle(op, "TooLargeOrNoKey", "none") /\ UNCHANGED <<hub, calls, last>>
    BY <1>4 DEF PutThrows
  <2>2. /\ ops'[op].job = ops[op].job /\ ops'[op].company = ops[op].company
        /\ ops'[op].outcome = "TooLargeOrNoKey"
        /\ \A other \in Ops \ {op} : ops'[other] = ops[other]
    BY <1>1, <2>1, SettleEffect
  <2> QED
    BY <2>1, <2>2, LoneKept
<1>5. ASSUME NEW op \in Ops, Succeed(op)
      PROVE  LoneInv'
  <2>1. /\ ops[op].phase = "running" /\ \A c \in WaitedFor(op) : c.reply = "ok"
        /\ ops' = Settle(op, Value(op), "none") /\ calls' \subseteq calls
        /\ UNCHANGED <<hub, last>>
    BY <1>5 DEF Succeed, Running
  <2>2. /\ ops'[op].job = ops[op].job /\ ops'[op].company = ops[op].company
        /\ \A other \in Ops \ {op} : ops'[other] = ops[other]
    BY <1>1, <2>1, SettleEffect
  <2>3. \A target \in TargetsOf(ops[op].job) :
          \E c \in calls : c.op = op /\ c.target = target /\ c.reply = "ok"
    BY <2>1 DEF GaiaInv, CallsInv, CallsComplete, WaitedFor
  <2> QED
    BY <2>1, <2>2, <2>3, LoneKept
<1>6. ASSUME NEW op \in Ops, Retry(op)
      PROVE  LoneInv'
  <2>1. /\ UNCHANGED <<hub, last>>
        /\ calls' = Unheard(op) \cup NewCalls(op, ops[op].job, 2)
        /\ \E d \in WaitedFor(op) : IsRecoverable(d.reply)
    BY <1>6 DEF Retry
  <2>2. \E d \in calls : d.op = op
    BY <2>1 DEF WaitedFor
  <2>3. \A c \in NewCalls(op, ops[op].job, 2) : c.op = op /\ c.reply = "none"
    BY NewCallsType
  <2>4. Unheard(op) \subseteq calls
    BY DEF Unheard, WaitedFor
  <2> QED
    BY <1>1, <1>6, <2>1, <2>2, <2>3, <2>4, RetryEffect, LoneKept
<1>7. ASSUME NEW op \in Ops, Reject(op)
      PROVE  LoneInv'
  <2>1. PICK outcome, failed : /\ outcome \in {"SignatureVerification", "failed"}
                                 /\ ops' = Settle(op, outcome, failed)
    BY <1>7 DEF Reject
  <2>2. calls' \subseteq calls /\ UNCHANGED <<hub, last>>
    BY <1>7 DEF Reject, Unheard, WaitedFor
  <2>3. /\ ops'[op].job = ops[op].job /\ ops'[op].company = ops[op].company
        /\ ops'[op].outcome # "done"
        /\ \A other \in Ops \ {op} : ops'[other] = ops[other]
    BY <1>1, <2>1, SettleEffect
  <2> QED
    BY <2>2, <2>3, LoneKept
<1> QED
  BY <1>2, <1>3, <1>4, <1>5, <1>6, <1>7, LoneHub DEF Next

\* A putFile that resolved with nobody else at work, whatever was refused, lost or retried on
\* the way, is what the hub holds in each of its paths until another operation starts.
THEOREM LonePuts == Spec => []LonePutIsStored
<1>1. Init => LoneInv
  BY DEF Init, LoneInv, IsPut, NoJob
<1>2. GaiaInv /\ LoneInv /\ [Next]_vars => LoneInv'
  BY LoneStep
<1>3. LoneInv => LonePutIsStored
  BY DEF LoneInv, LonePutIsStored, Stored
<1> QED
  BY <1>1, <1>2, <1>3, GaiaInvariant, PTL DEF Spec
=============================================================================
