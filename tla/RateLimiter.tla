----------------------------- MODULE RateLimiter -----------------------------
(***************************************************************************)
(* The token bucket of the senders (bench-core sender.rs): tasks that want *)
(* to submit ask it; it grants a token or tells how long to sleep before   *)
(* asking again.  Its rate is constant, or follows a schedule of steps     *)
(* that starts when the measurement begins.  Credit is capped at what the  *)
(* present rate earns in a short window, so that a stall is not made up    *)
(* for by a spike.                                                         *)
(*                                                                         *)
(* Time is counted in ticks; a token is worth Unit credits, and a rate is  *)
(* in credits per tick.                                                    *)
(***************************************************************************)
EXTENDS Integers, FiniteSets, Sequences, FiniteSetsExt

CONSTANTS
  Limits,      \* schedules to explore: sequences of [rate, length]
  Askers,      \* the tasks that share the limiter
  Unit,        \* credits in a token
  Window,      \* RATE_LIMITER_MAX_BURST, in ticks
  MaxLate,     \* bound: how late a task runs after its sleep
  MaxTime      \* bound: the clock

VARIABLES
  config,      \* the schedule; one step is a constant rate
  now,
  limiter,     \* RateLimiterState
  askers,      \* asker -> what it waits for
  granted      \* history: tokens granted at each tick, and since when a
               \* token has been wanted at every tick

vars == <<config, now, limiter, askers, granted>>

None == -1

-----------------------------------------------------------------------------
(* Offsets of the steps' ends. *)
EndOf(i) == FoldSet(LAMBDA j, total : total + config[j].length, 0, 1..i)

(* rate_at: the step that contains an offset, and the last one after all. *)
StepAt(elapsed) ==
  LET inside == {i \in 1..Len(config) : elapsed < EndOf(i)}
  IN IF inside = {} THEN Len(config) ELSE Min(inside)

(* Before the schedule starts the first step holds. *)
StepNow == IF limiter.started = None THEN 1 ELSE StepAt(now - limiter.started)

Burst(rate) == IF rate * Window > Unit THEN rate * Window ELSE Unit

RefillUncapped(rate) == limiter.tokens + (now - limiter.last) * rate \* fault

RefillWhole(rate) == \* fault
  Min({limiter.tokens + (((now - limiter.last) * rate) \div Unit) * Unit, Burst(rate)})

(* refill: all the time since the last refill at the present rate. *)
Refill(rate) ==
  Min({limiter.tokens + (now - limiter.last) * rate, Burst(rate)})

(* try_acquire_or_delay: a sleep is as long as the missing credit takes. *)
Delay(tokens, rate) == (Unit - tokens + rate - 1) \div rate

Ask(a) ==
  /\ askers[a].pc = "asking"
  /\ LET rate == config[StepNow].rate
         tokens == Refill(rate)
     IN IF tokens >= Unit
        THEN /\ limiter' = [limiter EXCEPT !.tokens = tokens - Unit, !.last = now]
             /\ askers' = [askers EXCEPT ![a] = [pc |-> "idle", until |-> now]]
             /\ granted' = [granted EXCEPT !.at[now] = @ + 1]
        ELSE /\ limiter' = [limiter EXCEPT !.tokens = tokens, !.last = now]
             /\ askers' = [askers EXCEPT ![a] =
                  [pc |-> "sleeping", until |-> now + Delay(tokens, rate)]]
             /\ UNCHANGED granted
  /\ UNCHANGED <<config, now>>

(* A task has a transaction to submit. *)
Want(a) ==
  /\ askers[a].pc = "idle"
  /\ askers' = [askers EXCEPT ![a] = [pc |-> "asking", until |-> now]]
  /\ granted' = [granted EXCEPT !.since = IF @ = None THEN now ELSE @]
  /\ UNCHANGED <<config, now, limiter>>

Wake(a) ==
  /\ askers[a].pc = "sleeping"
  /\ askers[a].until <= now
  /\ askers' = [askers EXCEPT ![a].pc = "asking"]
  /\ UNCHANGED <<config, now, limiter, granted>>

(* start_rate_schedule: the first step begins now, with its own credit. *)
Start ==
  /\ Len(config) > 1
  /\ limiter.started = None
  /\ limiter' = [tokens |-> Burst(config[1].rate), last |-> now, started |-> now]
  /\ UNCHANGED <<config, now, askers, granted>>

(* Time passes; a sleeping task runs at most MaxLate after its sleep, and a
   task that does not want a token (it has no transaction, or no permit) may
   stall for as long as it likes. *)
TimePasses ==
  /\ now < MaxTime
  /\ \A a \in Askers : askers[a].pc # "asking"
  /\ \A a \in Askers : askers[a].pc = "sleeping" => now < askers[a].until + MaxLate
  /\ now' = now + 1
  /\ granted' = [granted EXCEPT
       !.since = IF \A a \in Askers : askers[a].pc = "idle" THEN None ELSE @]
  /\ UNCHANGED <<config, limiter, askers>>

-----------------------------------------------------------------------------
Init ==
  /\ config \in Limits
  /\ now = 0
  /\ limiter = [tokens |-> Burst(config[1].rate), last |-> 0, started |-> None]
  /\ askers = [a \in Askers |-> [pc |-> "idle", until |-> 0]]
  /\ granted = [at |-> [t \in 0..MaxTime |-> 0], since |-> None]

Next ==
  \/ \E a \in Askers : Want(a) \/ Ask(a) \/ Wake(a)
  \/ Start
  \/ TimePasses

Spec == Init /\ [][Next]_vars

-----------------------------------------------------------------------------
(* Type invariant. *)
TypeOK ==
  /\ now \in 0..MaxTime
  /\ limiter.tokens \in Nat
  /\ limiter.last \in 0..now
  /\ limiter.started \in {None} \cup 0..now
  /\ \A a \in Askers : askers[a].pc \in {"idle", "asking", "sleeping"}

GrantedIn(from, to) == FoldSet(LAMBDA t, total : total + granted.at[t], 0, from..to)

(* The step in force at a tick that is past, once the schedule has started. *)
StepOf(t) == StepAt(t - limiter.started)

(* However long a task stalls and however the steps follow each other, no
   stretch of time within a step sees more tokens than its rate earns and one
   capped burst (the limiter "caps accumulated credit to a small time
   window").  A constant rate is one step; with a schedule the tick that it
   starts at counts two bursts. *)
RateIsHeld ==
  \A from \in 0..now :
    /\ Len(config) = 1 =>
         GrantedIn(from, now) * Unit <= Burst(config[1].rate)
                                        + config[1].rate * (now - from)
    /\ limiter.started # None /\ from > limiter.started
         /\ StepOf(from) = StepOf(now) =>
         LET rate == config[StepOf(now)].rate
         IN GrantedIn(from, now) * Unit <= Burst(rate) + rate * (now - from)

(* The credit of a sleep and its delay fits in the burst: not so when the
   window earns less than a token, where every delay is lost to the rate. *)
FitsBurst(rate) == Unit <= rate * (Window - 1 - MaxLate) + 1

(* While a token is wanted at every tick, a constant rate is reached: no
   refill loses credit, however many tasks ask and however often. *)
RateIsReached ==
  Len(config) = 1 /\ granted.since # None /\ FitsBurst(config[1].rate) =>
    (GrantedIn(granted.since, now) + 1) * Unit
      >= config[1].rate * (now - granted.since - MaxLate)
=============================================================================
