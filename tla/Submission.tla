----------------------------- MODULE Submission -----------------------------
(***************************************************************************)
(* TransformationService.submit() for identical submissions: requests with *)
(* the same supplier, template and file, which share one idempotency key   *)
(* in Redis.  One of them reserves the key (SET NX), creates the job and   *)
(* resolves the key to it; the others wait for the answer.  What becomes   *)
(* of a job, its split task published or not, is JobPipeline's part.       *)
(*                                                                         *)
(* Time is a count of ticks.  left is the TTL the key has; spent is how    *)
(* long a request has worked since it last set that TTL, which it does by  *)
(* reserving and by the two touches.  MaxStage is the longest a request    *)
(* works between two of them, unless SlowRequests.  IDEMPOTENCY_TTL is a   *)
(* day: a resolved key is not counted down, ForgetJob ends it.             *)
(*                                                                         *)
(* A job has the name of the request that created it.  Left out: the       *)
(* uploaded object of a request that fails later (nothing reads it), and   *)
(* the poll interval of a waiting request.                                 *)
(***************************************************************************)
EXTENDS Naturals

CONSTANTS
  Requests,          \* identical POST /transform requests
  ReservationTTL,    \* IDEMPOTENCY_RESERVATION_TTL, in ticks
  MaxStage,          \* ticks between two refreshes of the reservation
  SlowRequests,      \* a stage may last longer than MaxStage
  CrashAt, RaiseAt,  \* accesses at which a process dies, a call raises
  MaxFaults          \* bound on the number of both together

Absent == "absent"
InProgress == "pending"

\* From reserve_idempotency to the end of submit()'s finally clause.
Holding == {"count", "upload", "create", "resolve", "release"}
Working == Holding \union {"send", "wait"}

ASSUME SubmissionAssumption ==
  /\ {Absent, InProgress} \intersect Requests = {}
  /\ ReservationTTL \in Nat /\ MaxStage \in Nat /\ MaxStage < ReservationTTL
  /\ SlowRequests \in BOOLEAN /\ MaxFaults \in Nat
  /\ CrashAt \subseteq Working /\ RaiseAt \subseteq Working

VARIABLES
  key,          \* value of the idempotency key
  left,         \* ticks until the key expires, 0 once it is resolved
  pc, spent,    \* per request: next access, ticks in its stage (0 out of one)
  answer,       \* per request: what it was, or is about to be, answered
  jobs,         \* requests whose job exists
  dispatched,   \* jobs whose split task was published
  forgotten,    \* history: jobs whose idempotency window has passed
  faults

vars == <<key, left, pc, spent, answer, jobs, dispatched, forgotten, faults>>

Answer == {"none", "success", "duplicate", "busy", "rejected", "error"}

Init ==
  /\ key = Absent /\ left = 0
  /\ pc = [r \in Requests |-> "idle"] /\ spent = [r \in Requests |-> 0]
  /\ answer = [r \in Requests |-> "none"]
  /\ jobs = {} /\ dispatched = {} /\ forgotten = {} /\ faults = 0
-----------------------------------------------------------------------------
Goto(r, p) == pc' = [pc EXCEPT ![r] = p]

Reply(r, a, p) == answer' = [answer EXCEPT ![r] = a] /\ Goto(r, p)

StopClock(r) == spent' = [spent EXCEPT ![r] = 0]

KeepJobs == UNCHANGED <<jobs, dispatched, forgotten, faults>>

\* Mutant: a placeholder may be overwritten.
ReserveUnlessResolved(r) ==
  /\ pc[r] = "idle"
  /\ IF key \notin Requests
       THEN /\ key' = InProgress /\ left' = ReservationTTL
            /\ Goto(r, "count") /\ spent' = [spent EXCEPT ![r] = 0]
       ELSE Goto(r, "wait") /\ UNCHANGED <<key, left, spent>>
  /\ UNCHANGED answer /\ KeepJobs

\* set_nx: the placeholder, unless the key has any value.
Reserve(r) ==
  /\ pc[r] = "idle"
  /\ IF key = Absent
       THEN /\ key' = InProgress /\ left' = ReservationTTL
            /\ Goto(r, "count") /\ spent' = [spent EXCEPT ![r] = 0]
       ELSE Goto(r, "wait") /\ UNCHANGED <<key, left, spent>>
  /\ UNCHANGED answer /\ KeepJobs

\* Unknown supplier, unpublished template or no items: an early return.
Reject(r) ==
  /\ pc[r] = "count" /\ Reply(r, "rejected", "release")
  /\ UNCHANGED <<key, left, spent>> /\ KeepJobs

\* Mutant: no refresh after a stage.
NoTouch(r) ==
  /\ pc[r] \in {"count", "upload"}
  /\ Goto(r, IF pc[r] = "count" THEN "upload" ELSE "create") /\ StopClock(r)
  /\ UNCHANGED <<key, left, answer>> /\ KeepJobs

\* The file was counted, or uploaded; EXPIRE the key, whatever its value.
Touch(r) ==
  /\ pc[r] \in {"count", "upload"}
  /\ Goto(r, IF pc[r] = "count" THEN "upload" ELSE "create")
  /\ left' = IF key = Absent THEN 0 ELSE ReservationTTL
  /\ StopClock(r)
  /\ UNCHANGED <<key, answer>> /\ KeepJobs

Create(r) ==
  /\ pc[r] = "create" /\ Goto(r, "resolve") /\ jobs' = jobs \union {r}
  /\ UNCHANGED <<key, left, spent, answer, dispatched, forgotten, faults>>

Resolve(r) ==
  /\ pc[r] = "resolve" /\ Goto(r, "send") /\ key' = r /\ left' = 0 /\ StopClock(r)
  /\ UNCHANGED answer /\ KeepJobs

Send(r) ==
  /\ pc[r] = "send" /\ Reply(r, "success", "done")
  /\ dispatched' = dispatched \union {r}
  /\ UNCHANGED <<key, left, spent, jobs, forgotten, faults>>

\* Mutant: the release looks at the answer instead of at what was resolved.
ReleaseIfRejected(r) ==
  /\ pc[r] = "release" /\ Goto(r, "done") /\ StopClock(r)
  /\ IF answer[r] = "rejected" THEN key' = Absent /\ left' = 0
                               ELSE UNCHANGED <<key, left>>
  /\ UNCHANGED answer /\ KeepJobs

\* DEL, whatever its value.
Release(r) ==
  /\ pc[r] = "release" /\ Goto(r, "done") /\ key' = Absent /\ left' = 0 /\ StopClock(r)
  /\ UNCHANGED answer /\ KeepJobs

\* Mutant: wait for an answer without a deadline.
AwaitForever(r) ==
  /\ pc[r] = "wait" /\ key \in Requests /\ Reply(r, "duplicate", "done")
  /\ UNCHANGED <<key, left, spent>> /\ KeepJobs

\* A poll that finds a job, or the last one, at the deadline.
Await(r) ==
  /\ pc[r] = "wait"
  /\ Reply(r, IF key \in Requests THEN "duplicate" ELSE "busy", "done")
  /\ UNCHANGED <<key, left, spent>> /\ KeepJobs

\* An exception: the finally clause releases what is not resolved; past it,
\* or in it, the request just fails.
Raise(r) ==
  /\ pc[r] \in RaiseAt /\ faults < MaxFaults /\ faults' = faults + 1
  /\ Reply(r, "error", CASE pc[r] \in Holding \ {"release"} -> "release"
                         [] pc[r] = "release"               -> "dead"
                         [] OTHER                           -> "done")
  /\ IF pc[r] = "release" THEN StopClock(r) ELSE UNCHANGED spent
  /\ UNCHANGED <<key, left, jobs, dispatched, forgotten>>

\* The process dies: nobody answers and nothing is released.
Crash(r) ==
  /\ pc[r] \in CrashAt /\ faults < MaxFaults /\ faults' = faults + 1
  /\ Goto(r, "dead") /\ StopClock(r)
  /\ UNCHANGED <<key, left, answer, jobs, dispatched, forgotten>>

\* Time passes, and with the TTL's last tick the key goes.
Tick ==
  /\ left > 0 /\ left' = left - 1
  /\ key' = IF left = 1 THEN Absent ELSE key
  /\ \A r \in Requests : pc[r] \in Holding => spent[r] < MaxStage \/ SlowRequests
  /\ spent' = [r \in Requests |-> IF pc[r] \in Holding /\ spent[r] < MaxStage
                                    THEN spent[r] + 1 ELSE spent[r]]
  /\ UNCHANGED <<pc, answer>> /\ KeepJobs

\* IDEMPOTENCY_TTL after the key was resolved.
ForgetJob ==
  /\ key \in Requests /\ left = 0 /\ key' = Absent
  /\ forgotten' = forgotten \union {key}
  /\ UNCHANGED <<left, pc, spent, answer, jobs, dispatched, faults>>

Step(r) ==
  Reject(r) \/ Touch(r) \/ Create(r) \/ Resolve(r) \/ Send(r) \/ Release(r) \/ Await(r)

Next ==
  \/ \E r \in Requests : Reserve(r) \/ Step(r) \/ Raise(r) \/ Crash(r)
  \/ Tick \/ ForgetJob

Spec == Init /\ [][Next]_vars

\* A request that runs goes on.
Fairness == \A r \in Requests : WF_vars(Step(r))

FairSpec == Spec /\ Fairness
-----------------------------------------------------------------------------
(* Properties *)

\* Every variable has the type its declaration describes.
TypeOK ==
  /\ key \in Requests \union {Absent, InProgress} /\ left \in 0 .. ReservationTTL
  /\ pc \in [Requests -> Working \union {"idle", "done", "dead"}]
  /\ spent \in [Requests -> 0 .. MaxStage] /\ answer \in [Requests -> Answer]
  /\ jobs \subseteq Requests /\ dispatched \subseteq jobs /\ forgotten \subseteq jobs
  /\ faults \in Nat

\* Identical submissions create one job until IDEMPOTENCY_TTL has passed,
\* though their reservation is shorter than their work: it is refreshed.
OneJobPerWindow == \A i, j \in jobs \ forgotten : i = j

\* "a corrected retry isn't blocked by a stale placeholder": the placeholder
\* is there only while its request works, or because it died.
PlaceholderHasHolder ==
  key = InProgress => \E r \in Requests : pc[r] \in Holding \union {"dead"}

\* A duplicate "never hangs indefinitely behind someone else's slow upload",
\* and neither does the request it waits for.
EveryRequestEnds == \A r \in Requests : (pc[r] \in Working) ~> (pc[r] \in {"done", "dead"})

-----------------------------------------------------------------------------
(* Inductive invariant behind OneJobPerWindow, without slow requests and   *)
(* without a fault between the job's creation and its key's resolution.    *)

\* A request inside submit()'s try holds the key, alone and in time.
HolderOwnsKey ==
  \A r \in Requests : pc[r] \in Holding =>
    /\ key = InProgress /\ left + spent[r] = ReservationTTL
    /\ \A q \in Requests : pc[q] \in Holding => q = r

\* A job is still to come, or its key is about to name it, names it or did.
JobsAreNamed ==
  /\ key \in Requests => key \in jobs /\ left = 0
  /\ \A r \in Requests :
       /\ pc[r] \in {"idle", "wait", "count", "upload", "create"} => r \notin jobs
       /\ pc[r] = "resolve" => r \in jobs
       /\ r \in jobs \ forgotten => pc[r] = "resolve" \/ key = r

SubmissionInv == TypeOK /\ HolderOwnsKey /\ JobsAreNamed
=============================================================================
