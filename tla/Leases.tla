------------------------------- MODULE Leases -------------------------------
(***************************************************************************)
(* Concurrency leases (federation/server/lease_store.py, lease_limiter.py, *)
(* federation/api/routes.py 148-206 and the client's side in               *)
(* federation/client/route_client.py).                                     *)
(*                                                                         *)
(* Before an application runs a model it asks the central server for a     *)
(* lease.  Below the threshold of active leases the server grants the      *)
(* model that was proposed, otherwise the first alternative.  Calls and    *)
(* answers get lost or late; a client without an answer runs its proposal  *)
(* without a lease.  The server keeps leases in memory until they are      *)
(* released or their time is up.                                           *)
(*                                                                         *)
(* A lease is named by the call that asked for it, before the server has   *)
(* chosen its uuid, and the name is free again once nobody knows the call: *)
(* calls come without end.  The handler of acquire has no await between its count *)
(* and its insertion, so the two are one step; what it awaits afterwards   *)
(* may fail and is part of the answer that does not arrive.  Nothing says  *)
(* that a call or a release arrives: one that never does is lost.          *)
(***************************************************************************)
EXTENDS Naturals, FiniteSets

CONSTANTS
  Models,
  Alternatives, \* Alternatives[m]: what may come first among the other candidates
                \* of a proposal m; m itself where there is no other
  Slots,      \* executions that applications have in work at once
  Threshold,  \* of the free tier, the only one that acquire asks for
  MaxCalls    \* bound: calls of acquire that are known at once

ASSUME ThresholdIsNumber == Threshold \in Nat
ASSUME AlternativesAreModels == Alternatives \in [Models -> SUBSET Models]
ASSUME CallsAreCounted == MaxCalls \in Nat
ASSUME SlotsAreFinite == IsFiniteSet(Slots)

VARIABLES
  lease,    \* lease[i]: what has become of call i and of the lease it got
  run,      \* the execution in each slot
  releases  \* leases whose release is on its way

vars == <<lease, run, releases>>

-----------------------------------------------------------------------------
Ids == 1 .. MaxCalls
NoLease == 0  \* lease_id None

Unused == [pc |-> "unused"]
Stored == {"live", "overdue"}  \* the lease is in LeaseStore._leases
Gone == {"released", "dropped"}
Call == [pc : {"sent"} \cup Stored \cup Gone, proposed : Models,
         alternative : Models, mode : {"none", "local", "central"}]

Idle == [pc |-> "idle"]
Asking == [pc : {"asking"}, model : Models, lease : Ids]
Running == [pc : {"running"}, model : Models, lease : Ids \cup {NoLease}]

TypeOK ==
  /\ lease \in [Ids -> {Unused} \cup Call]
  /\ run \in [Slots -> {Idle} \cup Asking \cup Running]
  /\ releases \subseteq Ids

Init ==
  /\ lease = [i \in Ids |-> Unused]
  /\ run = [s \in Slots |-> Idle]
  /\ releases = {}

-----------------------------------------------------------------------------
(* The lease store.                                                        *)

(* Mutant: the clock that expiry is compared with stands still. *)
NeverExpired(i) == FALSE

(* time.monotonic() >= expires_at *)
Expired(i) == lease[i].pc = "overdue"

(* The model the client is told to run: alternatives[0] under contention,  *)
(* or the proposal where there is none (alternative = proposed).           *)
Granted(i) == IF lease[i].mode = "central" THEN lease[i].alternative ELSE lease[i].proposed

(* active_count, over whatever mode the leases were granted in. *)
Active(m) == {i \in Ids : lease[i].pc \in Stored /\ ~Expired(i) /\ Granted(i) = m}

(* cleanup_expired *)
Cleaned(i) ==
  IF lease[i].pc \in Stored /\ Expired(i) THEN [lease[i] EXCEPT !.pc = "dropped"] ELSE lease[i]

(* Mutant: one lease too many. *)
ModeTooLate(m) == IF Cardinality(Active(m)) <= Threshold THEN "local" ELSE "central"

(* decide_mode, after its cleanup. *)
Mode(m) == IF Cardinality(Active(m)) < Threshold THEN "local" ELSE "central"

(* Mutant: a call that comes twice is granted twice. *)
AcquireAgain(i) ==
  /\ lease[i].pc \in {"sent", "dropped"}
  /\ lease' = [j \in Ids |->
       IF j = i THEN [lease[i] EXCEPT !.pc = "live", !.mode = Mode(lease[i].proposed)]
                ELSE Cleaned(j)]
  /\ UNCHANGED <<run, releases>>

(* POST /concurrency/acquire, whether or not its client still waits. *)
Acquire(i) ==
  /\ lease[i].pc = "sent"
  /\ lease' = [j \in Ids |->
       IF j = i THEN [lease[i] EXCEPT !.pc = "live", !.mode = Mode(lease[i].proposed)]
                ELSE Cleaned(j)]
  /\ UNCHANGED <<run, releases>>

(* GET /mode *)
QueryMode ==
  /\ lease' = [i \in Ids |-> Cleaned(i)]
  /\ UNCHANGED <<run, releases>>

(* POST /concurrency/release *)
Release(i) ==
  /\ i \in releases
  /\ lease' = IF lease[i].pc \in Stored THEN [lease EXCEPT ![i].pc = "released"] ELSE lease
  /\ releases' = releases \ {i}
  /\ UNCHANGED run

(* The time to live of a lease is over. *)
Lapse(i) ==
  /\ lease[i].pc = "live"
  /\ lease' = [lease EXCEPT ![i].pc = "overdue"]
  /\ UNCHANGED <<run, releases>>

(* The server restarts; its leases were in memory. *)
RestartServer ==
  /\ lease' = [i \in Ids |->
       IF lease[i].pc \in Stored THEN [lease[i] EXCEPT !.pc = "dropped"] ELSE lease[i]]
  /\ UNCHANGED <<run, releases>>

-----------------------------------------------------------------------------
(* The client.                                                             *)

(* route() of a known agent: the local router proposes m, the other        *)
(* candidates begin with alt.  A call gets the first number that is free.  *)
Propose(s, i, m, alt) ==
  /\ run[s] = Idle
  /\ lease[i] = Unused /\ \A j \in Ids : j < i => lease[j] # Unused
  /\ lease' = [lease EXCEPT ![i] = [pc |-> "sent", proposed |-> m, alternative |-> alt,
                                    mode |-> "none"]]
  /\ run' = [run EXCEPT ![s] = [pc |-> "asking", model |-> m, lease |-> i]]
  /\ UNCHANGED releases

(* The unknown agent: the central route, or the local one, and no lease. *)
RouteUnknown(s, m) ==
  /\ run[s] = Idle
  /\ run' = [run EXCEPT ![s] = [pc |-> "running", model |-> m, lease |-> NoLease]]
  /\ UNCHANGED <<lease, releases>>

Receive(s) ==
  /\ run[s].pc = "asking"
  /\ lease[run[s].lease].pc \in Stored \cup Gone
  /\ run' = [run EXCEPT ![s] = [pc |-> "running", model |-> Granted(run[s].lease),
                                lease |-> run[s].lease]]
  /\ UNCHANGED <<lease, releases>>

(* httpx.HTTPError (a timeout, a lost or a failed answer): the proposal is *)
(* run without a lease.  What the server does with the call is unknown.    *)
FallBack(s) ==
  /\ run[s].pc = "asking"
  /\ run' = [run EXCEPT ![s] = [pc |-> "running", model |-> run[s].model, lease |-> NoLease]]
  /\ UNCHANGED <<lease, releases>>

(* The execution is over and the application releases its lease. *)
Finish(s) ==
  /\ run[s].pc = "running"
  /\ releases' = releases \cup ({run[s].lease} \ {NoLease})
  /\ run' = [run EXCEPT ![s] = Idle]
  /\ UNCHANGED lease

(* The application stops, or it does not release. *)
Abandon(s) ==
  /\ run[s] # Idle
  /\ run' = [run EXCEPT ![s] = Idle]
  /\ UNCHANGED <<lease, releases>>

(* The last of a call that its client has given up or finished with: it    *)
(* was lost, or its lease is out of the store, and a release of that lease *)
(* finds nothing, whether it arrives or not.                               *)
Forget(i) ==
  /\ lease[i].pc \in {"sent"} \cup Gone
  /\ \A s \in Slots : run[s] # Idle => run[s].lease # i
  /\ lease' = [lease EXCEPT ![i] = Unused]
  /\ releases' = releases \ {i}
  /\ UNCHANGED run

-----------------------------------------------------------------------------
Next ==
  \/ \E i \in Ids : Acquire(i) \/ Release(i) \/ Lapse(i) \/ Forget(i)
  \/ QueryMode \/ RestartServer
  \/ \E s \in Slots :
       \/ \E m \in Models : RouteUnknown(s, m)
       \/ \E i \in Ids, m \in Models : \E alt \in Alternatives[m] : Propose(s, i, m, alt)
       \/ Receive(s) \/ FallBack(s) \/ Finish(s) \/ Abandon(s)

Spec == Init /\ [][Next]_vars

(* Time passes; nobody has to release anything. *)
FairSpec == Spec /\ \A i \in Ids : WF_vars(Lapse(i))

-----------------------------------------------------------------------------
(* A running execution that was granted a lease is counted by the server,  *)
(* until its time is up or the server restarts: nobody else's release, no  *)
(* cleanup and no late answer takes its place away.                        *)
HeldLeaseIsActive ==
  \A s \in Slots :
    run[s].pc = "running" /\ run[s].lease # NoLease =>
      \/ run[s].lease \in Active(run[s].model)
      \/ lease[run[s].lease].pc \in {"overdue", "dropped"}

(* The executions that run their own proposal under a valid lease.         *)
LocalRuns(m) ==
  {s \in Slots : /\ run[s].pc = "running" /\ run[s].model = m /\ run[s].lease # NoLease
                 /\ lease[run[s].lease].pc = "live" /\ lease[run[s].lease].mode = "local"}

(* There are never more of them than the threshold, however the calls,     *)
(* releases, expiries and restarts interleave (lease_limiter.py:71-72).    *)
LocalRunsBounded == \A m \in Models : Cardinality(LocalRuns(m)) <= Threshold

(* The valid leases of local mode are the permits of LeasePermits.         *)
LocalLeases(m) ==
  {i \in Ids : lease[i].pc = "live" /\ lease[i].mode = "local" /\ lease[i].proposed = m}

Permits == INSTANCE LeasePermits WITH
  permits <- [m \in Models |-> LocalLeases(m)],
  granted <- {i \in Ids : lease[i] # Unused /\ lease[i].mode = "local"}

KeepsPermits == Permits!Spec

(* From some time on no new call is redirected to m: m is not the first    *)
(* alternative of other proposals, and its own have another alternative.   *)
NoMoreRedirects(m) ==
  <>[][\A i \in Ids : lease[i] = Unused /\ lease'[i] # Unused => lease'[i].alternative # m]_lease

(* Contention passes although answers get lost, holders disappear and      *)
(* calls go on proposing the model without end: one whose proposals are    *)
(* refused is granted again, because leases run out and a refused proposal *)
(* is counted for its alternative (lease_store.py:62, 87-96).  A redirect, *)
(* or a refusal without alternative, is granted and counted whatever the   *)
(* mode (routes.py 161-181), and may keep a model contended for ever:      *)
(* hence the premise.                                                      *)
ContentionPasses ==
  \A m \in Models :
    Threshold > 0 /\ NoMoreRedirects(m) => (Mode(m) = "central" ~> Mode(m) = "local")
=============================================================================
