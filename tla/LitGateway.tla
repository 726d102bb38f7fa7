----------------------------- MODULE LitGateway -----------------------------
(***************************************************************************)
(* The literature gateway: one lane (arXiv, ar5iv, S2 or PDF), the tasks   *)
(* that send their requests through it, and the clock.                     *)
(*                                                                         *)
(* A lane is a bucket of one token: acquire checks the budget, reserves    *)
(* the next slot under the lane's lock and sleeps until that slot without  *)
(* the lock.  with_backoff repeats a request that fails.  How the two are  *)
(* combined differs from caller to caller, and is the caller's style.      *)
(*                                                                         *)
(* Times are relative: how long until a lane's next free slot, how long a  *)
(* task still sleeps.  A sleeping task may wake up late.                   *)
(***************************************************************************)
EXTENDS Integers, FiniteSets

CONSTANTS Caller,
          Style,     \* the styles of callers considered
          Interval,  \* the spacing of the lane (min_interval)
          MaxCalls,  \* its budget (max_calls)
          Retries,   \* MAX_RETRIES
          Backoff    \* the waits before another attempt: 2^attempt seconds,
                     \* or whatever the server asks for

ASSUME GatewayAssumption ==
  /\ IsFiniteSet(Caller)
  /\ Style \subseteq {"each", "once", "single"}
  /\ Interval \in Nat
  /\ MaxCalls \in Nat
  /\ Retries \in Nat \ {0}
  /\ Backoff \subseteq Nat

\* What a lane is asked to keep apart in the long run.
Horizon == MaxCalls * Interval

NoRequest == [at |-> "idle", wait |-> 0, grant |-> 0, attempt |-> 0]
Request == [at : {"acquire", "sleep", "call", "backoff"},
            wait : Nat, grant : 0..MaxCalls, attempt : 0..(Retries - 1)]

VARIABLES
  style,   \* how each caller combines acquire and with_backoff; fixed
  free,    \* time to next_allowed, 0 if that is past
  made,    \* calls_made
  request, \* of each caller: where it is, how long it sleeps, the number of
           \* the grant it holds and the attempt it is at
  sent,    \* history: calls that went out
  opened,  \* history: grants on which a first call went out
  elapsed  \* history: time since the lane was made, as far as Horizon

gatewayVars == <<style, free, made, request, sent, opened, elapsed>>

GatewayTypeOK ==
  /\ style \in [Caller -> Style]
  /\ free \in Nat
  /\ made \in 0..MaxCalls
  /\ request \in [Caller -> {NoRequest} \cup Request]
  /\ sent \in Nat
  /\ opened \subseteq 1..MaxCalls
  /\ elapsed \in 0..Horizon

GatewayInit ==
  /\ style \in [Caller -> Style]
  /\ free = 0
  /\ made = 0
  /\ request = [c \in Caller |-> NoRequest]
  /\ sent = 0
  /\ opened = {}
  /\ elapsed = 0
-----------------------------------------------------------------------------
CallerAt(c, here) == request[c].at = here
EndRequest(c) == request' = [request EXCEPT ![c] = NoRequest]

Start(c) ==
  /\ CallerAt(c, "idle")
  /\ request' = [request EXCEPT ![c].at = "acquire"]
  /\ UNCHANGED <<style, free, made, sent, opened, elapsed>>

\* Mutant of Reserve: the slot is not marked as taken before the sleep.
Reserve_Later(c) ==
  /\ made' = made + 1
  /\ request' = [request EXCEPT ![c] = [@ EXCEPT !.at = "sleep", !.wait = free, !.grant = made + 1]]
  /\ free' = IF free = 0 THEN Interval ELSE free

Reserve(c) ==
  /\ made' = made + 1
  /\ request' = [request EXCEPT ![c] = [@ EXCEPT !.at = "sleep", !.wait = free, !.grant = made + 1]]
  /\ free' = free + Interval

Exhausted == made >= MaxCalls

\* Mutant of Acquire: wait for a budget that never comes back.
Acquire_Waits(c) ==
  /\ CallerAt(c, "acquire")
  /\ ~Exhausted
  /\ Reserve(c)
  /\ UNCHANGED <<style, sent, opened, elapsed>>

\* Lane::acquire up to the sleep.  An exhausted budget is fatal for this
\* request: it returns at once, without a sleep and without a retry.
Acquire(c) ==
  /\ CallerAt(c, "acquire")
  /\ IF Exhausted THEN EndRequest(c) /\ UNCHANGED <<free, made>> ELSE Reserve(c)
  /\ UNCHANGED <<style, sent, opened, elapsed>>

\* The slot has come and the call goes out.
Send(c) ==
  /\ CallerAt(c, "sleep")
  /\ request[c].wait = 0
  /\ request' = [request EXCEPT ![c].at = "call"]
  /\ sent' = sent + 1
  /\ opened' = opened \cup {request[c].grant}
  /\ UNCHANGED <<style, free, made, elapsed>>

\* The call succeeds or fails for good; a caller without with_backoff takes
\* every failure for final.
Answer(c) ==
  /\ CallerAt(c, "call")
  /\ EndRequest(c)
  /\ UNCHANGED <<style, free, made, sent, opened, elapsed>>

\* A failure that may pass (429, 5xx, transport): back off.  The wait follows
\* the last attempt, too.
Fail(c) ==
  /\ CallerAt(c, "call")
  /\ style[c] # "single"
  /\ \E wait \in Backoff : request' = [request EXCEPT ![c].at = "backoff", ![c].wait = wait]
  /\ UNCHANGED <<style, free, made, sent, opened, elapsed>>

\* Mutant of Again: no caller acquires again.
Again_OnOneGrant(c) ==
  /\ CallerAt(c, "backoff")
  /\ request[c].wait = 0
  /\ IF request[c].attempt + 1 = Retries THEN EndRequest(c) /\ UNCHANGED sent
     ELSE /\ request' = [request EXCEPT ![c].at = "call", ![c].attempt = @ + 1]
          /\ sent' = sent + 1
  /\ UNCHANGED <<style, free, made, opened, elapsed>>

\* The next attempt.  The retrieval lanes of a review acquire within every
\* attempt; the exploration of Stage 0 acquired before the first one and goes
\* straight to the next call.
Again(c) ==
  /\ CallerAt(c, "backoff")
  /\ request[c].wait = 0
  /\ \/ request[c].attempt + 1 = Retries /\ EndRequest(c) /\ UNCHANGED sent
     \/ /\ request[c].attempt + 1 < Retries /\ style[c] = "each"
        /\ request' = [request EXCEPT ![c].at = "acquire", ![c].attempt = @ + 1]
        /\ UNCHANGED sent
     \/ /\ request[c].attempt + 1 < Retries /\ style[c] = "once"
        /\ request' = [request EXCEPT ![c].at = "call", ![c].attempt = @ + 1]
        /\ sent' = sent + 1
  /\ UNCHANGED <<style, free, made, opened, elapsed>>

\* The time limit on the retrieval for a gap drops the lane; its slot stays
\* reserved, its call stays charged.
Cancel(c) ==
  /\ style[c] = "each"
  /\ ~CallerAt(c, "idle")
  /\ EndRequest(c)
  /\ UNCHANGED <<style, free, made, sent, opened, elapsed>>

Less(n) == IF n = 0 THEN 0 ELSE n - 1

Tick ==
  /\ free' = Less(free)
  /\ request' = [c \in Caller |-> [request[c] EXCEPT !.wait = Less(@)]]
  /\ elapsed' = IF elapsed = Horizon THEN elapsed ELSE elapsed + 1
  /\ UNCHANGED <<style, made, sent, opened>>
-----------------------------------------------------------------------------
Step(c) == Acquire(c) \/ Send(c) \/ Answer(c) \/ Fail(c) \/ Again(c)

GatewayNext == Tick \/ \E c \in Caller : Start(c) \/ Step(c) \/ Cancel(c)

GatewaySpec == GatewayInit /\ [][GatewayNext]_gatewayVars

\* Time passes, sleepers wake and every call has a client-side time limit.
FairGatewaySpec == GatewaySpec /\ WF_gatewayVars(Tick) /\ \A c \in Caller : WF_gatewayVars(Step(c))
-----------------------------------------------------------------------------
(***************************************************************************)
(* Properties.                                                             *)
(***************************************************************************)

\* The callers that acquire within every attempt, or make one attempt.
Charging == \A c \in Caller : style[c] # "once"

\* Pacing: the first call on the n-th grant of a lane goes out no earlier than
\* n - 1 intervals after the start, however many tasks compete, wake late or
\* are dropped.  So first calls go out at no more than one per interval on
\* the whole, and if every caller acquires for every attempt all calls do.
\* Nothing is promised of the other attempts of Stage 0 (style "once"):
\* lit_explore.rs:193 acquired before with_backoff, so its retries go out on
\* one grant, unpaced and uncharged, where lit_gateway.rs:17 calls the caps
\* hard and :48 has the spacing keep the throughput provably under the limit.
GrantsOnTime ==
  /\ \A n \in opened : elapsed >= (n - 1) * Interval
  /\ Cardinality(opened) * Interval <= elapsed + Interval
  /\ Charging => sent * Interval <= elapsed + Interval

\* Budget: as long as every caller acquires for every attempt, no more calls
\* go out than were granted.
CallsArePaid == Charging => sent <= made

\* Every request comes to an end.
RequestsEnd == \A c \in Caller : ~CallerAt(c, "idle") ~> CallerAt(c, "idle")

\* The budget is a hard cap on calls when every attempt acquires (CapIsHardWhenCharged);
\* the wrappers of Stage 0 retry on one grant.
HardCap == sent <= MaxCalls
-----------------------------------------------------------------------------
(***************************************************************************)
(* The inductive invariant of LiteratureProofs.                            *)
(***************************************************************************)
Granted == {c \in Caller : CallerAt(c, "sleep") \/ CallerAt(c, "call") \/ CallerAt(c, "backoff")}

\* A task wakes no earlier than its slot; the slots go up to next_allowed.
\* After the sleep the slot stays past.
SlotsAhead ==
  /\ elapsed + free >= made * Interval
  /\ \A c \in Granted :
       /\ request[c].grant \in 1..made
       /\ elapsed + (IF CallerAt(c, "sleep") THEN request[c].wait ELSE 0)
            >= (request[c].grant - 1) * Interval

\* No two tasks hold the same grant.
OwnGrants == \A c, d \in Granted : request[c].grant = request[d].grant => c = d

Sleepers == {c \in Caller : CallerAt(c, "sleep")}

\* Every sleeper holds a grant that has not been used, and a grant is opened
\* once, after its slot has come.
OpenedInTime ==
  /\ \A n \in opened : n \in 1..made /\ elapsed >= (n - 1) * Interval
  /\ \A c \in Sleepers : request[c].grant \notin opened
  /\ Charging => sent = Cardinality(opened)

PaidInFull == Charging => sent + Cardinality(Sleepers) <= made

GatewayIInv == GatewayTypeOK /\ SlotsAhead /\ OwnGrants /\ OpenedInTime /\ PaidInFull
=============================================================================
