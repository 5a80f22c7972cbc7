-------------------------- MODULE Submission_proofs --------------------------
(***************************************************************************)
(* What TLAPS proves of Submission, for any number of identical requests,  *)
(* any reservation TTL longer than a stage and any number of faults.       *)
(***************************************************************************)
EXTENDS Submission, TLAPS

LEMMA KeyValues == Absent # InProgress /\ Absent \notin Requests /\ InProgress \notin Requests
BY SubmissionAssumption DEF Absent, InProgress
-----------------------------------------------------------------------------
(* Types, whatever is slow and whatever fails *)

TypeInv == TypeOK /\ PlaceholderHasHolder
             /\ (key \in Requests => key \in jobs)
             /\ \A r \in Requests : pc[r] \in {"resolve", "send"} => r \in jobs

LEMMA InitTypeInv == Init => TypeInv
BY KeyValues, SubmissionAssumption
   DEF Init, TypeInv, TypeOK, PlaceholderHasHolder, Working, Holding, Answer

LEMMA StepTypeInv == \A r \in Requests : TypeInv /\ (Reserve(r) \/ Step(r)) => TypeInv'
<1> SUFFICES ASSUME NEW r \in Requests, TypeInv, Reserve(r) \/ Step(r)  PROVE TypeInv'
  OBVIOUS
<1> USE KeyValues, SubmissionAssumption
    DEF TypeInv, TypeOK, PlaceholderHasHolder, Working, Holding, Answer, Goto, Reply,
        KeepJobs, StopClock
<1>1. CASE Reserve(r)
  BY <1>1 DEF Reserve
<1>2. CASE Reject(r)
  BY <1>2 DEF Reject
<1>3. CASE Touch(r)
  BY <1>3 DEF Touch
<1>4. CASE Create(r)
  BY <1>4 DEF Create
<1>5. CASE Resolve(r)
  BY <1>5 DEF Resolve
<1>6. CASE Send(r)
  BY <1>6 DEF Send
<1>7. CASE Release(r)
  BY <1>7 DEF Release
<1>8. CASE Await(r)
  BY <1>8 DEF Await
<1>9. QED  BY <1>1, <1>2, <1>3, <1>4, <1>5, <1>6, <1>7, <1>8 DEF Step

LEMMA NextTypeInv == TypeInv /\ [Next]_vars => TypeInv'
<1> SUFFICES ASSUME TypeInv, [Next]_vars  PROVE TypeInv'
  OBVIOUS
<1> USE KeyValues, SubmissionAssumption
    DEF TypeInv, TypeOK, PlaceholderHasHolder, Working, Holding, Answer, Goto, Reply,
        KeepJobs, StopClock
<1>1. ASSUME NEW r \in Requests, Reserve(r) \/ Step(r)  PROVE TypeInv'
  BY <1>1, StepTypeInv
<1>2. ASSUME NEW r \in Requests, Raise(r)  PROVE TypeInv'
  BY <1>2 DEF Raise
<1>3. ASSUME NEW r \in Requests, Crash(r)  PROVE TypeInv'
  BY <1>3 DEF Crash
<1>4. CASE Tick
  BY <1>4 DEF Tick
<1>5. CASE ForgetJob
  BY <1>5 DEF ForgetJob
<1>6. CASE UNCHANGED vars
  BY <1>6 DEF vars
<1>7. QED  BY <1>1, <1>2, <1>3, <1>4, <1>5, <1>6 DEF Next

\* submit()'s finally clause: a placeholder left behind is a dead request's,
\* even when requests outlive their reservations.
THEOREM PlaceholderIsHeld == Spec => []PlaceholderHasHolder
<1>1. TypeInv => PlaceholderHasHolder
  BY DEF TypeInv
<1>2. QED  BY <1>1, InitTypeInv, NextTypeInv, PTL DEF Spec
-----------------------------------------------------------------------------
(* One job per window *)

LEMMA InitInv == Init => SubmissionInv
BY KeyValues, InitTypeInv DEF TypeInv, Init, SubmissionInv, HolderOwnsKey, JobsAreNamed, Holding

\* What the proofs of exactness assume: stages end in time, and no fault
\* separates a job from its key.
InTime == ~SlowRequests /\ "resolve" \notin CrashAt \union RaiseAt

LEMMA StepInv ==
  ASSUME InTime, TypeInv, SubmissionInv, NEW r \in Requests, Reserve(r) \/ Step(r)
  PROVE  HolderOwnsKey' /\ JobsAreNamed'
<1> USE KeyValues, SubmissionAssumption
    DEF SubmissionInv, TypeOK, HolderOwnsKey, JobsAreNamed, Holding, Goto, Reply,
        KeepJobs, StopClock
<1>1. CASE Reserve(r)
  BY <1>1 DEF Reserve
<1>2. CASE Reject(r)
  BY <1>2 DEF Reject
<1>3. CASE Touch(r)
  BY <1>3 DEF Touch
<1>4. CASE Create(r)
  BY <1>4 DEF Create
<1>5. CASE Resolve(r)
  BY <1>5 DEF Resolve
<1>6. CASE Send(r)
  BY <1>6 DEF Send
<1>7. CASE Release(r)
  BY <1>7 DEF Release
<1>8. CASE Await(r)
  BY <1>8 DEF Await
<1>9. QED  BY <1>1, <1>2, <1>3, <1>4, <1>5, <1>6, <1>7, <1>8 DEF Step

LEMMA NextInv ==
  ASSUME InTime, TypeInv, SubmissionInv, [Next]_vars  PROVE SubmissionInv'
<1> USE KeyValues, SubmissionAssumption
    DEF SubmissionInv, TypeOK, HolderOwnsKey, JobsAreNamed, Holding, Goto, Reply,
        KeepJobs, StopClock
<1>0. TypeOK'
  BY NextTypeInv DEF TypeInv
<1>1. ASSUME NEW r \in Requests, Reserve(r) \/ Step(r)
      PROVE  HolderOwnsKey' /\ JobsAreNamed'
  BY <1>1, StepInv
<1>2. ASSUME NEW r \in Requests, Raise(r)  PROVE HolderOwnsKey' /\ JobsAreNamed'
  BY <1>2 DEF Raise, InTime
<1>3. ASSUME NEW r \in Requests, Crash(r)  PROVE HolderOwnsKey' /\ JobsAreNamed'
  BY <1>3 DEF Crash, InTime
<1>4. CASE Tick
  BY <1>4 DEF Tick, InTime
<1>5. CASE ForgetJob
  BY <1>5 DEF ForgetJob
<1>6. CASE UNCHANGED vars
  BY <1>6 DEF vars
<1>7. HolderOwnsKey' /\ JobsAreNamed'
  BY <1>1, <1>2, <1>3, <1>4, <1>5, <1>6 DEF Next
<1>8. QED  BY <1>0, <1>7

\* The request between its reservation and its release or resolution is the
\* only one and the reservation outlives each of its stages.
THEOREM SubmissionInductive == ASSUME InTime  PROVE Spec => []SubmissionInv
<1>1. TypeInv /\ SubmissionInv /\ [Next]_vars => TypeInv' /\ SubmissionInv'
  BY NextInv, NextTypeInv
<1>2. QED  BY <1>1, InitInv, InitTypeInv, PTL DEF Spec

\* Two jobs of identical submissions are in different windows: submit()
\* creates one only under a reservation no other request has.
THEOREM SubmissionsAreDeduplicated == ASSUME InTime  PROVE Spec => []OneJobPerWindow
<1>1. SubmissionInv => OneJobPerWindow
  BY KeyValues DEF SubmissionInv, TypeOK, HolderOwnsKey, JobsAreNamed, Holding, OneJobPerWindow
<1>2. QED  BY <1>1, SubmissionInductive, PTL
=============================================================================
