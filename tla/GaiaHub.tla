------------------------------ MODULE GaiaHub ------------------------------
(***************************************************************************)
(* The operations of packages/core/src/storage on one path of one bucket of  *)
(* a Gaia hub: putFile with its retry, getFile, getFileSignedUnencrypted and *)
(* deleteFile, run by any number of callers.  An operation sends one HTTP    *)
(* call, or two in parallel: to the path and to path.sig.  The hub handles   *)
(* the calls one by one in any order; the calls of a parallel pair that is   *)
(* no longer waited for are handled all the same.                            *)
(***************************************************************************)
EXTENDS GaiaFiles, FiniteSets

CONSTANTS
    Ops,        \* the operations that will be run, once each
    JobsOf,     \* what each operation may be
    Owner,      \* the key of the bucket's address
    Faults,     \* what may go wrong with a call
    MaxFaults   \* bound: how many calls it goes wrong with

NoJob == [kind |-> "none"]

\* job is a putFile, getFile or deleteFile with its arguments.
IsJob(job) ==
    \/ /\ job.kind = "put" /\ DOMAIN job = {"kind", "put"}
       /\ job.put.data \in Data /\ job.put.options \in PutOptions
    \/ /\ job.kind = "get" /\ DOMAIN job = {"kind", "options"}
       /\ job.options \in GetOptions
    \/ /\ job.kind = "delete" /\ DOMAIN job = {"kind", "wasSigned"}
       /\ job.wasSigned \in BOOLEAN

ASSUME GaiaHubAssumption ==
    /\ DOMAIN JobsOf = Ops
    /\ \A op \in Ops : \A job \in JobsOf[op] : IsJob(job)
    /\ Owner \in Keys
    /\ Faults \subseteq {"401", "403", "409", "500", "network"}
    /\ MaxFaults \in Nat

Targets == {"file", "sig"}

Jobs == UNION {JobsOf[op] : op \in Ops}

VARIABLES
    hub,        \* the two files of the path
    calls,      \* HTTP calls not yet answered, or answered and waited for
    ops,        \* the operations
    last,       \* the operation that started last
    faults      \* how many calls went wrong

vars == <<hub, calls, ops, last, faults>>

Replies == {"none", "ok", "404", "401", "403", "409", "500", "network"}

Calls == [op : Ops, attempt : 1..2, target : Targets, reply : Replies,
          got : Files \cup {NoFile}]

\* failed is the reply an operation was rejected with, if a reply did it;
\* company tells whether another operation or call overlapped it.
OpStates == [job : Jobs \cup {NoJob}, phase : {"new", "running", "settled"}, attempt : 0..2,
             outcome : Outcomes,
             failed : Replies, company : {"alone", "overlapped"}]

TypeOK ==
    /\ hub \in [Targets -> Files \cup {NoFile}]
    /\ calls \subseteq Calls
    /\ ops \in [Ops -> OpStates]
    /\ last \in Ops \cup {"none"}
    /\ faults \in 0..MaxFaults

Init ==
    /\ hub = [target \in Targets |-> NoFile]
    /\ calls = {}
    /\ ops = [op \in Ops |-> [job |-> NoJob, phase |-> "new", attempt |-> 0,
                              outcome |-> "none", failed |-> "none", company |-> "alone"]]
    /\ last = "none"
    /\ faults = 0

-----------------------------------------------------------------------------
(* Calls.                                                                   *)

IsPut(job) == job.kind = "put"

\* getFile takes getFileSignedUnencrypted's way.
ReadsSignature(job) == job.kind = "get" /\ job.options.verify /\ job.options.decrypt = "false"

\* The paths a job works on.
TargetsOf(job) ==
    IF \/ IsPut(job) /\ SignsApart(job.put.options)
       \/ ReadsSignature(job)
       \/ job.kind = "delete" /\ job.wasSigned
    THEN Targets
    ELSE {"file"}

NewCalls(op, job, attempt) ==
    {[op |-> op, attempt |-> attempt, target |-> target, reply |-> "none", got |-> NoFile] :
        target \in TargetsOf(job)}

WaitedFor(op) == {c \in calls : c.op = op /\ c.attempt = ops[op].attempt}

IsWaitedFor(c) == ops[c.op].phase = "running" /\ c.attempt = ops[c.op].attempt

\* The files of a put: the body of the upload to each path.
PutFiles(put) ==
    [target \in Targets |-> IF target = "file" THEN ContentFile(put.options, put.data)
                                              ELSE SignatureFile(put.options, put.data)]

Answer(c, reply, got) ==
    calls' = (calls \ {c}) \cup
             IF IsWaitedFor(c) THEN {[c EXCEPT !.reply = reply, !.got = got]} ELSE {}

Fault == faults < MaxFaults /\ faults' = faults + 1

\* The hub does what the call asks for; its answer may get lost.
HubHandles(c, lost) ==
    LET job == ops[c.op].job
        missing == ~IsPut(job) /\ hub[c.target] = NoFile
    IN  /\ c.reply = "none"
        /\ IF lost THEN "network" \in Faults /\ Fault ELSE faults' = faults
        /\ Answer(c, IF lost THEN "network" ELSE IF missing THEN "404" ELSE "ok",
                  IF job.kind = "get" /\ ~lost THEN hub[c.target] ELSE NoFile)
        /\ hub' = CASE job.kind = "put" -> [hub EXCEPT ![c.target] = PutFiles(job.put)[c.target]]
                    [] job.kind = "delete" -> [hub EXCEPT ![c.target] = NoFile]
                    [] OTHER -> hub
        /\ UNCHANGED <<ops, last>>

\* The hub refuses the call, or the connection is lost before it got there.
CallFails(c, fault) ==
    /\ c.reply = "none"
    /\ fault \in Faults
    /\ Fault
    /\ Answer(c, fault, NoFile)
    /\ UNCHANGED <<hub, ops, last>>

-----------------------------------------------------------------------------
(* Operations.                                                              *)

Running == {op \in Ops : ops[op].phase = "running"}

Settle(op, outcome, failed) ==
    [ops EXCEPT ![op].phase = "settled", ![op].outcome = outcome, ![op].failed = failed]

Start(op, job) ==
    /\ ops[op].phase = "new"
    /\ IsPut(job) => CanPut(job.put.options, job.put.data)
    /\ calls' = calls \cup NewCalls(op, job, 1)
    /\ ops' = [other \in Ops |->
                 IF other = op
                 THEN [ops[op] EXCEPT !.job = job, !.phase = "running", !.attempt = 1,
                                      !.company = IF Running = {} /\ calls = {} THEN "alone"
                                                              ELSE "overlapped"]
                 ELSE IF other \in Running THEN [ops[other] EXCEPT !.company = "overlapped"]
                 ELSE ops[other]]
    /\ last' = op
    /\ UNCHANGED <<hub, faults>>

\* The size or key checks of putFile fail.
PutThrows(op, job) ==
    /\ ops[op].phase = "new"
    /\ IsPut(job) /\ ~CanPut(job.put.options, job.put.data)
    /\ ops' = Settle(op, "TooLargeOrNoKey", "none")
    /\ UNCHANGED <<hub, calls, last, faults>>

Got(op, target) == (CHOOSE c \in WaitedFor(op) : c.target = target).got

\* The value of an operation whose calls all succeeded.
Value(op) ==
    LET job == ops[op].job
    IN  CASE ReadsSignature(job) -> SignedOutcome(Got(op, "file"), Got(op, "sig"), Owner)
          [] job.kind = "get" /\ ~ReadsSignature(job) ->
               GetOutcome(job.options, Got(op, "file"), Owner)
          [] OTHER -> "done"

Succeed(op) ==
    /\ op \in Running
    /\ \A c \in WaitedFor(op) : c.reply = "ok"
    /\ ops' = Settle(op, Value(op), "none")
    /\ calls' = calls \ WaitedFor(op)
    /\ UNCHANGED <<hub, last, faults>>

Failed(c) == c.reply \notin {"none", "ok"}

\* getBlockstackErrorFromResponse makes an error with the status of the
\* response for these; for any other status a plain Error, and fetch itself
\* rejects with one when the network fails.
HasHubError(reply) == reply \in {"401", "402", "403", "404", "409", "412", "413"}

IsRecoverable(reply) == HasHubError(reply) /\ reply \in {"401", "409", "500"}

\* Promise.all rejects on the first failure; the other call goes on unheard
\* (a read that goes on changes nothing).
Unheard(op) == (calls \ WaitedFor(op)) \cup
               {c \in WaitedFor(op) : c.reply = "none" /\ ops[op].job.kind # "get"}

\* A retry that uploads only the contents.
RetryContentsOnly(op) ==
    /\ op \in Running
    /\ IsPut(ops[op].job)
    /\ ops[op].attempt = 1
    /\ \E c \in WaitedFor(op) : IsRecoverable(c.reply)
    /\ calls' = Unheard(op) \cup {c \in NewCalls(op, ops[op].job, 2) : c.target = "file"}
    /\ ops' = [ops EXCEPT ![op].attempt = 2]
    /\ UNCHANGED <<hub, last, faults>>

\* A retry after every recoverable error, however often it came.
RetryAlways(op) ==
    /\ op \in Running
    /\ IsPut(ops[op].job)
    /\ \E c \in WaitedFor(op) : IsRecoverable(c.reply)
    /\ calls' = Unheard(op) \cup NewCalls(op, ops[op].job, ops[op].attempt + 1)
    /\ ops' = [ops EXCEPT ![op].attempt = @ + 1]
    /\ UNCHANGED <<hub, last, faults>>

\* putFile retries once, with the same hub config.
Retry(op) ==
    /\ op \in Running
    /\ IsPut(ops[op].job)
    /\ ops[op].attempt = 1
    /\ \E c \in WaitedFor(op) : IsRecoverable(c.reply)
    /\ calls' = Unheard(op) \cup NewCalls(op, ops[op].job, 2)
    /\ ops' = [ops EXCEPT ![op].attempt = 2]
    /\ UNCHANGED <<hub, last, faults>>

\* Errors of a second attempt that nobody catches.
RejectOnlyFirst(op) ==
    /\ op \in Running
    /\ ops[op].attempt = 1
    /\ \E c \in WaitedFor(op) :
         /\ Failed(c)
         /\ IsPut(ops[op].job) => ~IsRecoverable(c.reply)
         /\ ops' = Settle(op, "failed", c.reply)
    /\ calls' = Unheard(op)
    /\ UNCHANGED <<hub, last, faults>>

Reject(op) ==
    /\ op \in Running
    /\ \E c \in WaitedFor(op) :
         /\ Failed(c)
         /\ (IsPut(ops[op].job) /\ ops[op].attempt = 1) => ~IsRecoverable(c.reply)
         /\ ops' = Settle(op, IF ReadsSignature(ops[op].job) /\ c.target = "sig" /\ c.reply = "404"
                              THEN "SignatureVerification"
                              ELSE "failed", c.reply)
    /\ calls' = Unheard(op)
    /\ UNCHANGED <<hub, last, faults>>

-----------------------------------------------------------------------------
Next ==
    \/ \E op \in Ops : \/ \E job \in JobsOf[op] : Start(op, job) \/ PutThrows(op, job)
                       \/ Succeed(op) \/ Retry(op) \/ Reject(op)
    \/ \E c \in calls : \/ \E lost \in BOOLEAN : HubHandles(c, lost)
                        \/ \E fault \in Faults : CallFails(c, fault)

Spec == Init /\ [][Next]_vars

\* Every call is answered or fails in the end, and the promise it settles runs
\* its continuation.
FairSpec ==
    /\ Spec
    /\ WF_vars(\E c \in calls : HubHandles(c, FALSE))
    /\ \A op \in Ops : WF_vars(Succeed(op) \/ Retry(op) \/ Reject(op))

-----------------------------------------------------------------------------
(* Properties.                                                              *)

\* The putFile calls made so far.
PutsMade == {ops[op].job.put : op \in {x \in Ops : IsPut(ops[x].job)}}

\* getFileSignedUnencrypted never returns contents, but for an empty string, that no putFile
\* of the bucket's owner signed, whatever mixture of old and new files its two reads, taken at
\* different times, find.
VerifiedReadIsAuthentic ==
    \A op \in Ops :
        ReadsSignature(ops[op].job) /\ ops[op].outcome \in Data \ EmptyData =>
            \E put \in PutsMade : /\ SignsApart(put.options) /\ SigningKey(put.options) = Owner
                                  /\ put.data = ops[op].outcome

\* A putFile that resolved, whose two uploads and retry no other operation or
\* left-over call overlapped, is what the hub holds until another operation
\* starts, even if calls of its first attempt are still on their way.
LonePutIsStored ==
    \A op \in Ops :
        op = last /\ IsPut(ops[op].job) /\ ops[op].outcome = "done" /\ ops[op].company = "alone"
        => \A target \in TargetsOf(ops[op].job) : hub[target] = PutFiles(ops[op].job.put)[target]

\* A putFile encrypted these contents for the reader with the owner's private key.
IsPutEncrypted(put, o, contents) ==
    /\ Truthy(put.options.encrypt) /\ put.data = contents
    /\ Recipient(put.options) = DecryptionKey(o) /\ put.options.privateKey = Owner

\* A putFile put in plain the text of a file that has these contents encrypted for the reader:
\* one that the owner signed, or if neither the read asks to verify nor the text names a
\* signature, any.
IsPutAsText(put, o, contents) ==
    /\ ~Truthy(put.options.encrypt) /\ put.data \in DOMAIN Embedded
    /\ LET f == Embedded[put.data]
       IN  /\ f.data = contents /\ f.to = DecryptionKey(o)
           /\ \/ f.form = "signedCipher" /\ f.signer = Owner
              \/ /\ f.form = "cipherObject" /\ ~o.verify
                 /\ ~({"signature", "publicKey"} \subseteq WordsOf[put.data])

\* A getFile that asks to decrypt never returns contents that were not encrypted for its key
\* and signed by the owner: a file that somebody else put in the place, plain or encrypted, is
\* not taken for them, whatever words it has in it, unless it is the text of a cipher object
\* without a signature and the read does not ask to verify.
DecryptedReadIsEncrypted ==
    \A op \in Ops :
        /\ ops[op].job.kind = "get" /\ ops[op].job.options.decrypt # "false"
        /\ ops[op].outcome \in Data
        => \E put \in PutsMade : \/ IsPutEncrypted(put, ops[op].job.options, ops[op].outcome)
                                \/ IsPutAsText(put, ops[op].job.options, ops[op].outcome)

\* No operation waits for ever: whatever fails, and after the one retry, every
\* started operation settles (each operation runs once).
OperationsSettle == <>[](Running = {})
=============================================================================
