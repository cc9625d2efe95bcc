----------------------------- MODULE StripePool -----------------------------
(***************************************************************************)
(* The rasteriser worker pool of GGFE (src/frontend/plumos_ggfe.c).  The   *)
(* frame is cut into stripes; the main thread and the pool's workers claim *)
(* them one at a time under the pool's lock, and ggfe_pool_run may return  *)
(* only when every stripe has been drawn and no worker still looks at the  *)
(* job's fields (target, draws, panel...), which the main thread overwrites *)
(* for the next job without taking the lock.                               *)
(*                                                                         *)
(* One action is one critical section of the lock, or the drawing of one   *)
(* stripe, which happens outside it.  A thread in pthread_cond_wait is     *)
(* "asleep" and moves again only when it is signalled or wakes spuriously, *)
(* so a lost wakeup would show.                                            *)
(***************************************************************************)
EXTENDS Integers, FiniteSets

CONSTANTS
  Threads,       \* the workers pool_start tries to create (count - 1 of them)
  Stripes,       \* GGFE_STRIPES
  MaxRuns        \* bound: jobs handed to the pool, so that generation is finite

ASSUME PoolAssumption ==
  /\ IsFiniteSet(Threads)
  /\ Stripes \in Nat
  /\ MaxRuns \in Nat
  /\ "main" \notin Threads

Everyone == Threads \cup {"main"}

\* No stripe is claimed by this thread.
NoStripe == -1

VARIABLES
  started,       \* the workers pthread_create really made
  generation,    \* number of the current job
  pending,       \* workers that have not yet finished the current job
  next_stripe,   \* the next stripe to hand out
  shutdown,
  seen,          \* per worker: the last generation it took up
  pc,            \* per thread: where it is
  claim,         \* per thread: the stripe it is drawing, or NoStripe
  drawn          \* per stripe: how often the current job drew it

poolVars == <<started, generation, pending, next_stripe, shutdown, seen, pc, claim, drawn>>

Places == {"idle", "stripes", "barrier", "check", "finish", "asleep", "gone"}

TypeOK ==
  /\ started \in SUBSET Threads
  /\ generation \in 0..MaxRuns
  /\ pending \in Int
  /\ next_stripe \in Nat
  /\ shutdown \in BOOLEAN
  /\ seen \in [Threads -> 0..MaxRuns]
  /\ pc \in [Everyone -> Places]
  /\ claim \in [Everyone -> Int]
  /\ drawn \in [0..Stripes - 1 -> Nat]

-----------------------------------------------------------------------------
(* ggfe_pool_start: memset, then one worker after the other until one       *)
(* cannot be created.                                                       *)

ggfe_pool_start(created) ==
  /\ started = created
  /\ generation = 0 /\ pending = 0 /\ next_stripe = 0 /\ shutdown = FALSE
  /\ seen = [w \in Threads |-> 0]
  /\ pc = [t \in Everyone |-> IF t = "main" THEN "idle"
                              ELSE IF t \in created THEN "check" ELSE "gone"]
  /\ claim = [t \in Everyone |-> NoStripe]
  /\ drawn = [s \in 0..Stripes - 1 |-> 1]

PoolInit == \E created \in SUBSET Threads : ggfe_pool_start(created)

\* Mutant of WorkReady: the signal is sent to nobody.
LostWakeup(at) == at

\* pthread_cond_broadcast(&work_ready): every sleeping worker runs on.
WorkReady(at) == [t \in Everyone |-> IF t # "main" /\ at[t] = "asleep" THEN "check" ELSE at[t]]

(* ggfe_pool_run: the job is published under the lock, or, with no worker,  *)
(* run by the caller alone.                                                 *)
ggfe_pool_run ==
  /\ pc["main"] = "idle" /\ generation < MaxRuns /\ ~shutdown
  /\ pending' = IF started = {} THEN pending ELSE Cardinality(started)
  /\ next_stripe' = 0
  /\ generation' = IF started = {} THEN generation ELSE generation + 1
  /\ pc' = [WorkReady(pc) EXCEPT !["main"] = "stripes"]
  /\ drawn' = [s \in 0..Stripes - 1 |-> 0]
  /\ UNCHANGED <<started, shutdown, seen, claim>>

(* ggfe_worker_main, up to the call of ggfe_run_stripes.                    *)
ggfe_worker_main(w) ==
  /\ pc[w] = "check"
  /\ pc' = [pc EXCEPT ![w] = IF shutdown THEN "gone"
                             ELSE IF generation = seen[w] THEN "asleep" ELSE "stripes"]
  /\ seen' = [seen EXCEPT ![w] = IF shutdown THEN @ ELSE generation]
  /\ UNCHANGED <<started, generation, pending, next_stripe, shutdown, claim, drawn>>

\* A condition variable may wake a thread that nobody signalled.
Spurious(t) ==
  /\ pc[t] = "asleep"
  /\ pc' = [pc EXCEPT ![t] = IF t = "main" THEN "barrier" ELSE "check"]
  /\ UNCHANGED <<started, generation, pending, next_stripe, shutdown, seen, claim, drawn>>

\* Where a thread goes when ggfe_run_stripes returns.
AfterStripes(t) == IF t # "main" THEN "finish"
                   ELSE IF started = {} THEN "idle" ELSE "barrier"

(* ggfe_run_stripes: claim the next stripe, or return when none is left ... *)
ggfe_run_stripes(t) ==
  /\ pc[t] = "stripes" /\ claim[t] = NoStripe
  /\ next_stripe' = next_stripe + 1
  /\ IF next_stripe < Stripes
     THEN /\ claim' = [claim EXCEPT ![t] = next_stripe]
          /\ pc' = pc
     ELSE /\ pc' = [pc EXCEPT ![t] = AfterStripes(t)]
          /\ claim' = claim
  /\ UNCHANGED <<started, generation, pending, shutdown, seen, drawn>>

(* ... and draw it: raster, prepare or blit, on the rows of the stripe only. *)
DrawStripe(t) ==
  /\ pc[t] = "stripes" /\ claim[t] # NoStripe
  /\ drawn' = [drawn EXCEPT ![claim[t]] = @ + 1]
  /\ claim' = [claim EXCEPT ![t] = NoStripe]
  /\ UNCHANGED <<started, generation, pending, next_stripe, shutdown, seen, pc>>

(* ggfe_worker_main, after ggfe_run_stripes: the last one signals work_done. *)
WorkerDone(w) ==
  /\ pc[w] = "finish"
  /\ pending' = pending - 1
  /\ pc' = [pc EXCEPT ![w] = "check",
                      !["main"] = IF pending = 1 /\ @ = "asleep" THEN "barrier" ELSE @]
  /\ UNCHANGED <<started, generation, next_stripe, shutdown, seen, claim, drawn>>

\* Mutant of PoolBarrier: ggfe_pool_run returns once its own stripes are drawn.
NoBarrier ==
  /\ pc["main"] = "barrier"
  /\ pc' = [pc EXCEPT !["main"] = "idle"]
  /\ UNCHANGED <<started, generation, pending, next_stripe, shutdown, seen, claim, drawn>>

(* ggfe_pool_run, the wait for the workers.                                 *)
PoolBarrier ==
  /\ pc["main"] = "barrier"
  /\ pc' = [pc EXCEPT !["main"] = IF pending > 0 THEN "asleep" ELSE "idle"]
  /\ UNCHANGED <<started, generation, pending, next_stripe, shutdown, seen, claim, drawn>>

(* ggfe_pool_stop: from the main thread, between two jobs.                  *)
ggfe_pool_stop ==
  /\ pc["main"] = "idle" /\ started # {} /\ ~shutdown
  /\ shutdown' = TRUE
  /\ pc' = WorkReady(pc)
  /\ UNCHANGED <<started, generation, pending, next_stripe, seen, claim, drawn>>

PoolJoin ==
  /\ pc["main"] = "idle" /\ shutdown /\ started # {}
  /\ \A w \in started : pc[w] = "gone"
  /\ started' = {}
  /\ UNCHANGED <<generation, pending, next_stripe, shutdown, seen, pc, claim, drawn>>

OnStripes(t) == ggfe_run_stripes(t) \/ DrawStripe(t)

WorkerStep(w) == ggfe_worker_main(w) \/ WorkerDone(w) \/ OnStripes(w)

MainStep == PoolBarrier \/ PoolJoin \/ OnStripes("main")

PoolNext ==
  \/ ggfe_pool_run \/ ggfe_pool_stop \/ MainStep
  \/ \E w \in Threads : WorkerStep(w)
  \/ \E t \in Everyone : Spurious(t)

(* Every thread is scheduled; nothing makes the application ask for another *)
(* frame, or the condition variables wake anybody by themselves.            *)
Fairness == WF_poolVars(MainStep) /\ \A w \in Threads : WF_poolVars(WorkerStep(w))

PoolSpec == PoolInit /\ [][PoolNext]_poolVars /\ Fairness

-----------------------------------------------------------------------------
(* Properties                                                               *)

\* When ggfe_pool_run has returned, every stripe of the frame has been drawn
\* exactly once and no worker is inside ggfe_run_stripes: the main thread may
\* overwrite the job's fields and present the frame.
FrameIsWhole ==
  pc["main"] = "idle" =>
    /\ \A s \in 0..Stripes - 1 : drawn[s] = 1
    /\ \A w \in Threads : pc[w] \notin {"stripes", "finish"}

\* No stripe is drawn twice by one job: two threads never write the same rows.
StripesAreDisjoint == \A s \in 0..Stripes - 1 : drawn[s] <= 1

\* Every job ends and every stop is joined: no thread sleeps through the signal
\* it waits for.
PoolReturns ==
  /\ pc["main"] # "idle" ~> pc["main"] = "idle"
  /\ shutdown ~> started = {}
=============================================================================
