---------------------------- MODULE HolderProofs ----------------------------
(***************************************************************************)
(* Proofs that every context of the pool is in one place, for any number   *)
(* of threads and works and for each scheduler: OneHolder, PinnedAtHome.   *)
(*                                                                         *)
(* The queues are looked into once, in the first section: what the         *)
(* scheduler operations do to the set of the queued contexts. From then on *)
(* a context is queued or not.                                             *)
(***************************************************************************)
EXTENDS FiberPoolProofs

-----------------------------------------------------------------------------
(* Sequences without duplicates. *)

NoDup(s) == \A k, l \in DOMAIN s : s[k] = s[l] => k = l

(* What is in a longer queue, and that it has no duplicate.                *)
LEMMA AppendPlaces ==
  ASSUME NEW s \in Seq(Ctx), NEW x \in Ctx
  PROVE  /\ \A y : In(y, Append(s, x)) <=> In(y, s) \/ y = x
         /\ NoDup(s) /\ ~In(x, s) => NoDup(Append(s, x))
<1> DEFINE r == Append(s, x)
<1>1. /\ r \in Seq(Ctx) /\ Len(r) = Len(s) + 1
      /\ \A i \in 1 .. Len(s) : r[i] = s[i]
      /\ r[Len(s) + 1] = x
  BY AppendProperties
<1>2. /\ Len(s) \in Nat /\ DOMAIN s = 1 .. Len(s)
      /\ DOMAIN r = 1 .. Len(s) + 1
  BY <1>1, LenProperties
<1> HIDE DEF r
<1>3. \A k \in DOMAIN r : k \in DOMAIN s \/ k = Len(s) + 1
  BY <1>2
<1>4. \A y : In(y, r) <=> In(y, s) \/ y = x
  BY <1>1, <1>2, <1>3 DEF In
<1>5. NoDup(s) /\ ~In(x, s) => NoDup(r)
  BY <1>1, <1>2, <1>3 DEF In, NoDup
<1> QED BY <1>4, <1>5 DEF r

(* The head leaves a queue without duplicates, and only it.                *)
LEMMA TailPlaces ==
  ASSUME NEW s \in Seq(Ctx), s # << >>, NoDup(s)
  PROVE  /\ Head(s) \in Ctx /\ In(Head(s), s)
         /\ \A y : In(y, Tail(s)) <=> In(y, s) /\ y # Head(s)
         /\ NoDup(Tail(s))
<1> DEFINE r == Tail(s)
<1>1. /\ Head(s) \in Ctx /\ r \in Seq(Ctx) /\ Len(r) = Len(s) - 1
      /\ \A i \in 1 .. Len(r) : r[i] = s[i + 1]
  BY HeadTailProperties
<1>2. /\ Len(s) \in Nat \ {0} /\ DOMAIN s = 1 .. Len(s)
      /\ DOMAIN r = 1 .. Len(s) - 1
  BY <1>1, LenProperties, EmptySeq
<1>3. Head(s) = s[1] /\ 1 \in DOMAIN s
  BY <1>2
<1> HIDE DEF r
<1>4. \A k \in DOMAIN r : k + 1 \in DOMAIN s /\ r[k] = s[k + 1] /\ k + 1 # 1
  BY <1>1, <1>2
<1>5. \A k \in DOMAIN s : k # 1 => k - 1 \in DOMAIN r /\ r[k - 1] = s[k]
  BY <1>1, <1>2
<1>6. \A y : In(y, r) <=> In(y, s) /\ y # Head(s)
  <2> SUFFICES ASSUME NEW y
               PROVE  In(y, r) <=> In(y, s) /\ y # s[1]
    BY <1>3
  <2>1. ASSUME In(y, r)
        PROVE  In(y, s) /\ y # s[1]
    BY <1>3, <1>4, <2>1 DEF In, NoDup
  <2>2. ASSUME In(y, s), y # s[1]
        PROVE  In(y, r)
    BY <1>5, <2>2 DEF In
  <2> QED BY <2>1, <2>2
<1>7. NoDup(r)
  <2> SUFFICES ASSUME NEW k \in DOMAIN r, NEW l \in DOMAIN r, r[k] = r[l]
               PROVE  k = l
    BY DEF NoDup
  <2>1. k + 1 = l + 1
    BY <1>4 DEF NoDup
  <2> QED BY <1>2, <2>1
<1> QED BY <1>1, <1>3, <1>6, <1>7 DEF In, r

-----------------------------------------------------------------------------
(* The queues of the scheduler. *)

Queued(x) == In(x, shared) \/ \E u \in Threads : In(x, local[u])

(* x is a context of thread t that never leaves it.                        *)
Home(x, t) == x = Main(t) \/ x = Disp(t)

(* A context is queued once, and a pinned one on its thread.               *)
QueueInv ==
  /\ NoDup(shared) /\ \A u \in Threads : NoDup(local[u])
  /\ \A x \in Ctx, u \in Threads : In(x, local[u]) => ~In(x, shared)
  /\ \A x \in Ctx, u, v \in Threads :
       In(x, local[u]) /\ In(x, local[v]) => u = v
  /\ \A x \in Pinned : ~In(x, shared)
  /\ \A t, u \in Threads, x \in Pinned : In(x, local[u]) /\ Home(x, t) => u = t

(* Exactly the pinned contexts have a home, and they have one.             *)
LEMMA HomeFacts ==
  /\ \A x \in Pinned : \E t \in Threads : Home(x, t)
  /\ \A t \in Threads : \A x : Home(x, t) => x \in Pinned /\ x \in Ctx
  /\ \A t, u \in Threads : \A x : Home(x, t) /\ Home(x, u) => t = u
  /\ \A t \in Threads : Main(t) # Disp(t)
BY DEF Home, Pinned, Ctx, Main, Disp

(* The queues change only by a push of ctx to the queue of thread t.       *)
LEMMA PushLocal ==
  ASSUME RuntimeTypeOK, QueueInv, NEW t \in Threads, NEW ctx \in Ctx,
         ~Queued(ctx), \A u \in Threads : Home(ctx, u) => u = t,
         local' = [local EXCEPT ![t] = Append(@, ctx)], shared' = shared
  PROVE  QueueInv' /\ \A y \in Ctx : Queued(y)' <=> Queued(y) \/ y = ctx
<1>1. /\ local[t] \in Seq(Ctx) /\ local'[t] = Append(local[t], ctx)
      /\ \A u \in Threads \ {t} : local'[u] = local[u]
  BY DEF RuntimeTypeOK
<1>2. /\ \A y : In(y, local'[t]) <=> In(y, local[t]) \/ y = ctx
      /\ NoDup(local[t]) /\ ~In(ctx, local[t]) => NoDup(local'[t])
  BY <1>1, AppendPlaces
<1>3. \A u \in Threads : \A y :
        In(y, local'[u]) <=> In(y, local[u]) \/ (u = t /\ y = ctx)
  BY <1>1, <1>2
<1>4. ~In(ctx, shared) /\ \A u \in Threads : ~In(ctx, local[u])
  BY DEF Queued
<1>5. \A u \in Threads : NoDup(local'[u])
  BY <1>1, <1>2, <1>4 DEF QueueInv
<1>6. QueueInv'
  <2>1. NoDup(shared')
    BY DEF QueueInv
  <2>2. \A x \in Ctx, u \in Threads : In(x, local'[u]) => ~In(x, shared')
    BY <1>3, <1>4 DEF QueueInv
  <2>3. \A x \in Ctx, u, v \in Threads :
          In(x, local'[u]) /\ In(x, local'[v]) => u = v
    BY <1>3, <1>4 DEF QueueInv
  <2>4. \A x \in Pinned : ~In(x, shared')
    BY DEF QueueInv
  <2>5. \A k, u \in Threads, x \in Pinned :
          In(x, local'[u]) /\ Home(x, k) => u = k
    BY <1>3 DEF QueueInv
  <2> QED BY <1>5, <2>1, <2>2, <2>3, <2>4, <2>5 DEF QueueInv
<1>7. \A y \in Ctx : Queued(y)' <=> Queued(y) \/ y = ctx
  BY <1>3 DEF Queued
<1> QED BY <1>6, <1>7

(* Whatever the scheduler, awakened() queues the context it is given.      *)
LEMMA AwakenedQueued ==
  ASSUME RuntimeTypeOK, QueueInv, NEW t \in Threads, NEW ctx \in Ctx,
         ~Queued(ctx), \A u \in Threads : Home(ctx, u) => u = t,
         Awakened(t, ctx)
  PROVE  QueueInv' /\ \A y \in Ctx : Queued(y)' <=> Queued(y) \/ y = ctx
<1>1. CASE local' = [local EXCEPT ![t] = Append(@, ctx)] /\ shared' = shared
  BY <1>1, PushLocal
<1>2. CASE shared' = Append(shared, ctx) /\ local' = local /\ ctx \notin Pinned
  <2>1. /\ \A y : In(y, shared') <=> In(y, shared) \/ y = ctx
        /\ NoDup(shared) /\ ~In(ctx, shared) => NoDup(shared')
    BY <1>2, AppendPlaces DEF RuntimeTypeOK
  <2>2. ~In(ctx, shared) /\ \A u \in Threads : ~In(ctx, local[u])
    BY DEF Queued
  <2>3. QueueInv'
    BY <1>2, <2>1, <2>2 DEF QueueInv
  <2>4. \A y \in Ctx : Queued(y)' <=> Queued(y) \/ y = ctx
    BY <1>2, <2>1 DEF Queued
  <2> QED BY <2>3, <2>4
<1> QED
  BY <1>1, <1>2 DEF Awakened, RR!Awakened, SW!Awakened, WS!Awakened

(* What pick_next() of thread t does when it returns ctx.                  *)
Picks(t, ctx) ==
  /\ QueueInv'
  /\ ctx # NoCtx => ctx \in Ctx /\ Queued(ctx)
  /\ \A u \in Threads : Home(ctx, u) => u = t
  /\ \A y \in Ctx : Queued(y)' <=> Queued(y) /\ y # ctx

(* It takes the first context of the queue of v, which it may.             *)
LEMMA PopLocal ==
  ASSUME RuntimeTypeOK, QueueInv, NEW t \in Threads, NEW v \in Threads,
         local[v] # << >>, v = t \/ Head(local[v]) \notin Pinned,
         local' = [local EXCEPT ![v] = Tail(@)], shared' = shared
  PROVE  Picks(t, Head(local[v]))
<1> DEFINE ctx == Head(local[v])
<1>1. /\ local[v] \in Seq(Ctx) /\ local'[v] = Tail(local[v])
      /\ \A u \in Threads \ {v} : local'[u] = local[u]
  BY DEF RuntimeTypeOK
<1>2. /\ ctx \in Ctx /\ In(ctx, local[v])
      /\ \A y : In(y, local'[v]) <=> In(y, local[v]) /\ y # ctx
      /\ NoDup(local'[v])
  BY <1>1, TailPlaces DEF QueueInv
<1>3. v = t \/ ctx \notin Pinned
  OBVIOUS
<1> HIDE DEF ctx
<1>4. ~In(ctx, shared) /\ \A u \in Threads \ {v} : ~In(ctx, local[u])
  BY <1>2 DEF QueueInv
<1>5. \A u \in Threads : \A y : In(y, local'[u]) <=> In(y, local[u]) /\ y # ctx
  BY <1>1, <1>2, <1>4
<1>6. \A u \in Threads : NoDup(local'[u])
  BY <1>1, <1>2 DEF QueueInv
<1>7. QueueInv'
  BY <1>5, <1>6 DEF QueueInv
<1>8. \A y \in Ctx : Queued(y)' <=> Queued(y) /\ y # ctx
  BY <1>4, <1>5 DEF Queued
<1>9. \A u \in Threads : Home(ctx, u) => u = t
  <2> SUFFICES ASSUME NEW u \in Threads, Home(ctx, u)
               PROVE  u = t
    OBVIOUS
  <2>1. ctx \in Pinned
    BY HomeFacts
  <2> QED BY <1>2, <1>3, <2>1 DEF QueueInv
<1> QED BY <1>2, <1>7, <1>8, <1>9 DEF Picks, Queued, ctx

(* It finds nothing.                                                       *)
LEMMA PopNothing ==
  ASSUME QueueInv, NEW t \in Threads, UNCHANGED queueVars
  PROVE  Picks(t, NoCtx)
<1>1. NoCtx \notin Ctx
  BY ContextAssumption
<1>2. \A u \in Threads : ~Home(NoCtx, u)
  BY <1>1, HomeFacts
<1>3. QueueInv' /\ \A y : Queued(y)' <=> Queued(y)
  BY DEF queueVars, QueueInv, Queued
<1> QED BY <1>1, <1>2, <1>3 DEF Picks

(* Whatever the scheduler, pick_next() takes one context off the queues,   *)
(* a pinned one only on its thread, or none.                               *)
LEMMA PickNextPicks ==
  ASSUME RuntimeTypeOK, QueueInv, NEW t \in Threads, NEW ctx, PickNext(t, ctx)
  PROVE  Picks(t, ctx)
<1>1. CASE UNCHANGED queueVars /\ ctx = NoCtx
  BY <1>1, PopNothing
<1>2. CASE \E v \in Threads :
             /\ local[v] # << >> /\ ctx = Head(local[v])
             /\ v = t \/ ctx \notin Pinned
             /\ local' = [local EXCEPT ![v] = Tail(@)] /\ shared' = shared
  BY <1>2, PopLocal
<1>3. CASE /\ shared # << >> /\ ctx = Head(shared)
           /\ shared' = Tail(shared) /\ local' = local
  <2>1. /\ ctx \in Ctx /\ In(ctx, shared)
        /\ \A y : In(y, shared') <=> In(y, shared) /\ y # ctx
        /\ NoDup(shared')
    BY <1>3, TailPlaces DEF RuntimeTypeOK, QueueInv
  <2>2. \A u \in Threads : ~In(ctx, local[u])
    BY <2>1 DEF QueueInv
  <2>3. \A u \in Threads : ~Home(ctx, u)
    BY <2>1, HomeFacts DEF QueueInv
  <2>4. QueueInv'
    BY <1>3, <2>1 DEF QueueInv
  <2>5. \A y \in Ctx : Queued(y)' <=> Queued(y) /\ y # ctx
    BY <1>3, <2>1, <2>2 DEF Queued
  <2> QED BY <2>1, <2>3, <2>4, <2>5 DEF Picks, Queued
<1>4. CASE sched = "round_robin" /\ RR!PickNext(t, ctx) /\ shared' = shared
  BY <1>1, <1>2, <1>4 DEF RR!PickNext, queueVars
<1>5. CASE sched = "shared_work" /\ SW!PickNext(t, ctx)
  BY <1>1, <1>2, <1>3, <1>5 DEF SW!PickNext, queueVars
<1>6. CASE sched = "work_stealing" /\ WS!PickNext(t, ctx) /\ shared' = shared
  <2>1. \A k \in Threads : schedulers[k] \subseteq Threads
    BY DEF RuntimeTypeOK
  <2> QED BY <1>1, <1>2, <1>6, <2>1 DEF WS!PickNext, WS!Steal, queueVars
<1> QED BY <1>4, <1>5, <1>6 DEF PickNext

-----------------------------------------------------------------------------
(* The places of a context: queued, switched out of a thread but not       *)
(* handed over yet, or owning a thread.                                    *)

Resting(x) == Queued(x) \/ \E t \in Threads : handover[t] = x
Held(x) == Resting(x) \/ \E t \in Threads : active[t] = x

(* No context is in two places, and a pinned one is on its thread.         *)
PlaceInv ==
  /\ QueueInv
  /\ \A t, u \in Threads : active[t] = active[u] => active[t] = NoCtx \/ t = u
  /\ \A t, u \in Threads :
       handover[t] = handover[u] => handover[t] = NoCtx \/ t = u
  /\ \A t, u \in Threads : active[t] = handover[u] => active[t] = NoCtx
  /\ \A t \in Threads : active[t] # NoCtx => ~Queued(active[t])
  /\ \A t \in Threads : handover[t] # NoCtx => ~Queued(handover[t])
  /\ \A t, u \in Threads :
       Home(active[t], u) \/ Home(handover[t], u) => u = t

(* The step takes the contexts of out from the threads and their queues,   *)
(* adds those of in, and of the others lays down at most those of rest.    *)
Changes(out, in, rest) ==
  /\ PlaceInv'
  /\ \A y \in Ctx : Held(y)' <=> (Held(y) /\ y \notin out) \/ y \in in
  /\ \A y \in Ctx : Resting(y)' => Resting(y) \/ y \in rest

(* Nothing moves.                                                          *)
LEMMA PlacesSame ==
  ASSUME PlaceInv, UNCHANGED <<active, handover, shared, local>>
  PROVE  Changes({}, {}, {})
<1>1. PlaceInv'
  BY DEF PlaceInv, QueueInv, Queued
<1>2. \A y : (Held(y)' <=> Held(y)) /\ (Resting(y)' <=> Resting(y))
  BY DEF Held, Resting, Queued
<1> QED BY <1>1, <1>2 DEF Changes

(* A context that was nowhere is made ready.                               *)
LEMMA PlacesAwakened ==
  ASSUME RuntimeTypeOK, PlaceInv, NEW t \in Threads, NEW ctx \in Ctx,
         ~Held(ctx), \A u \in Threads : Home(ctx, u) => u = t,
         Awakened(t, ctx), UNCHANGED <<active, handover>>
  PROVE  Changes({}, {ctx}, {ctx})
<1>1. QueueInv' /\ \A y \in Ctx : Queued(y)' <=> Queued(y) \/ y = ctx
  BY AwakenedQueued DEF PlaceInv, Held, Resting
<1>2. \A u \in Threads : active[u] # ctx /\ handover[u] # ctx
  BY DEF Held, Resting
<1>3. PlaceInv'
  BY <1>1, <1>2 DEF PlaceInv, RuntimeTypeOK
<1>4. \A y \in Ctx : (Held(y)' <=> Held(y) \/ y = ctx)
                       /\ (Resting(y)' => Resting(y) \/ y = ctx)
  BY <1>1 DEF Held, Resting
<1> QED BY <1>3, <1>4 DEF Changes

(* A context that owned thread t is handed over.                           *)
LEMMA PlacesHandover ==
  ASSUME RuntimeTypeOK, PlaceInv, NEW t \in Threads, Handover(t)
  PROVE  Changes({}, {}, {})
<1> DEFINE ctx == handover[t]
<1>1. /\ ctx \in Ctx /\ ctx # NoCtx /\ Awakened(t, ctx) /\ active' = active
      /\ handover' = [handover EXCEPT ![t] = NoCtx]
  BY DEF Handover, RuntimeTypeOK
<1>2. ~Queued(ctx) /\ \A u \in Threads : Home(ctx, u) => u = t
  BY <1>1 DEF PlaceInv
<1>3. /\ \A u \in Threads : active[u] # ctx
      /\ \A u \in Threads \ {t} : handover[u] # ctx
  BY <1>1 DEF PlaceInv
<1>4. handover'[t] = NoCtx /\ \A u \in Threads \ {t} : handover'[u] = handover[u]
  BY <1>1 DEF RuntimeTypeOK
<1> HIDE DEF ctx
<1>5. QueueInv' /\ \A y \in Ctx : Queued(y)' <=> Queued(y) \/ y = ctx
  BY <1>1, <1>2, AwakenedQueued DEF PlaceInv
<1>6. \A u \in Threads : ~Home(NoCtx, u)
  BY HomeFacts, ContextAssumption
<1>7. PlaceInv'
  BY <1>1, <1>3, <1>4, <1>5, <1>6 DEF PlaceInv, RuntimeTypeOK
<1>8. handover[t] = ctx /\ NoCtx \notin Ctx
  BY ContextAssumption DEF ctx
<1>9. \A y \in Ctx : Resting(y)' <=> Resting(y)
  BY <1>4, <1>5, <1>8 DEF Resting
<1> QED BY <1>1, <1>7, <1>9 DEF Changes, Held

(* Thread t resumes what it picks. The context c that owned it is ready    *)
(* behind it, or gone from the queues.                                     *)
LEMMA PlacesResume ==
  ASSUME RuntimeTypeOK, PlaceInv, NEW t \in Threads,
         NEW c \in Ctx, Runs(t, c), NEW ctx \in Ctx \cup {NoCtx},
         PickNext(t, ctx), NEW back \in {c, NoCtx},
         active' = [active EXCEPT ![t] = ctx],
         handover' = [handover EXCEPT ![t] = back]
  PROVE  /\ back = c => Changes({}, {}, {c})
         /\ back = NoCtx => Changes({c}, {}, {})
<1>1. /\ active[t] = c /\ handover[t] = NoCtx
      /\ active'[t] = ctx /\ handover'[t] = back
      /\ \A u \in Threads \ {t} :
           active'[u] = active[u] /\ handover'[u] = handover[u]
  BY DEF Runs, RuntimeTypeOK
<1>2. /\ NoCtx \notin Ctx /\ c # NoCtx
      /\ \A u \in Threads : ~Home(NoCtx, u)
  BY HomeFacts, ContextAssumption
<1>3. /\ QueueInv'
      /\ ctx # NoCtx => ctx \in Ctx /\ Queued(ctx)
      /\ \A u \in Threads : Home(ctx, u) => u = t
      /\ \A y \in Ctx : Queued(y)' <=> Queued(y) /\ y # ctx
  BY PickNextPicks DEF PlaceInv, Picks
<1>4. /\ ~Queued(c) /\ \A u \in Threads : Home(c, u) => u = t
      /\ \A u \in Threads \ {t} : active[u] # c /\ handover[u] # c
  BY <1>1, <1>2 DEF PlaceInv
<1>5. ctx # NoCtx => \A u \in Threads : active[u] # ctx /\ handover[u] # ctx
  BY <1>3 DEF PlaceInv
<1>6. PlaceInv'
  <2>1. \A u, v \in Threads :
          active'[u] = active'[v] => active'[u] = NoCtx \/ u = v
    BY <1>1, <1>5 DEF PlaceInv
  <2>2. \A u, v \in Threads :
          handover'[u] = handover'[v] => handover'[u] = NoCtx \/ u = v
    BY <1>1, <1>4 DEF PlaceInv
  <2>3. \A u, v \in Threads : active'[u] = handover'[v] => active'[u] = NoCtx
    BY <1>1, <1>2, <1>3, <1>4, <1>5 DEF PlaceInv
  <2>4. \A u \in Threads : (active[u] # NoCtx => ~Queued(active[u]))'
    BY <1>1, <1>3 DEF PlaceInv, RuntimeTypeOK
  <2>5. \A u \in Threads : (handover[u] # NoCtx => ~Queued(handover[u]))'
    BY <1>1, <1>3, <1>4 DEF PlaceInv, RuntimeTypeOK
  <2>6. \A u, v \in Threads :
          Home(active'[u], v) \/ Home(handover'[u], v) => v = u
    BY <1>1, <1>2, <1>3, <1>4 DEF PlaceInv
  <2> QED BY <1>3, <2>1, <2>2, <2>3, <2>4, <2>5, <2>6 DEF PlaceInv
<1>7. \A y \in Ctx : Resting(y)' => Resting(y) \/ y = back
  BY <1>1, <1>3 DEF Resting
<1>8. \A y \in Ctx : Held(y)' <=> (Held(y) /\ y # c) \/ y = back
  <2> SUFFICES ASSUME NEW y \in Ctx
               PROVE  Held(y)' <=> (Held(y) /\ y # c) \/ y = back
    OBVIOUS
  <2>1. ASSUME Held(y)'
        PROVE  (Held(y) /\ y # c) \/ y = back
    BY <1>1, <1>2, <1>3, <1>4, <2>1 DEF Held, Resting
  <2>2. ASSUME Held(y), y # c
        PROVE  Held(y)'
    BY <1>1, <1>2, <1>3, <2>2 DEF Held, Resting
  <2>3. ASSUME y = back
        PROVE  Held(y)'
    BY <1>1, <2>3 DEF Held, Resting
  <2> QED BY <2>1, <2>2, <2>3
<1>9. Held(c)
  BY <1>1 DEF Held
<1>10. CASE back = c
  BY <1>2, <1>6, <1>7, <1>8, <1>9, <1>10 DEF Changes
<1>11. CASE back = NoCtx
  BY <1>2, <1>6, <1>7, <1>8, <1>11 DEF Changes
<1> QED BY <1>2, <1>10, <1>11

(* The dispatcher finds no context to resume.                              *)
LEMMA PlacesNothing ==
  ASSUME RuntimeTypeOK, PlaceInv, NEW t \in Threads, PickNext(t, NoCtx),
         UNCHANGED <<active, handover>>
  PROVE  Changes({}, {}, {})
<1>1. NoCtx \notin Ctx
  BY ContextAssumption
<1>2. QueueInv' /\ \A y \in Ctx : Queued(y)' <=> Queued(y)
  BY <1>1, PickNextPicks DEF PlaceInv, Picks
<1>3. PlaceInv'
  BY <1>1, <1>2 DEF PlaceInv, RuntimeTypeOK
<1>4. \A y \in Ctx : (Held(y)' <=> Held(y)) /\ (Resting(y)' <=> Resting(y))
  BY <1>2 DEF Held, Resting
<1> QED BY <1>3, <1>4 DEF Changes

(* A new fiber takes over a thread, its owner is ready behind it.          *)
LEMMA PlacesLaunch ==
  ASSUME RuntimeTypeOK, PlaceInv, NEW t \in Threads, NEW f \in Ctx \ Pinned,
         ~Held(f), NEW c \in Ctx, Runs(t, c),
         active' = [active EXCEPT ![t] = f],
         handover' = [handover EXCEPT ![t] = c], UNCHANGED queueVars
  PROVE  Changes({}, {f}, {c})
<1>1. /\ active[t] = c /\ handover[t] = NoCtx
      /\ active'[t] = f /\ handover'[t] = c
      /\ \A u \in Threads \ {t} :
           active'[u] = active[u] /\ handover'[u] = handover[u]
  BY DEF Runs, RuntimeTypeOK
<1>2. NoCtx \notin Ctx /\ \A u \in Threads : ~Home(f, u)
  BY HomeFacts, ContextAssumption
<1>3. ~Queued(f) /\ \A u \in Threads : active[u] # f /\ handover[u] # f
  BY DEF Held, Resting
<1>4. /\ ~Queued(c) /\ \A u \in Threads : Home(c, u) => u = t
      /\ \A u \in Threads \ {t} : active[u] # c /\ handover[u] # c
  BY <1>1, <1>2 DEF PlaceInv
<1>5. QueueInv' /\ \A y : Queued(y)' <=> Queued(y)
  BY DEF queueVars, PlaceInv, QueueInv, Queued
<1>6. PlaceInv'
  BY <1>1, <1>2, <1>3, <1>4, <1>5 DEF PlaceInv
<1>7. \A y \in Ctx : Resting(y)' => Resting(y) \/ y = c
  BY <1>1, <1>5 DEF Resting
<1>8. \A y \in Ctx : Held(y)' <=> Held(y) \/ y = f
  <2> SUFFICES ASSUME NEW y \in Ctx
               PROVE  Held(y)' <=> Held(y) \/ y = f
    OBVIOUS
  <2>1. Held(y)' => Held(y) \/ y = f
    BY <1>1, <1>5 DEF Held, Resting
  <2>2. Held(y) \/ y = f => Held(y)'
    BY <1>1, <1>2, <1>5 DEF Held, Resting
  <2> QED BY <2>1, <2>2
<1> QED BY <1>6, <1>7, <1>8 DEF Changes

(* The dispatcher ends with its thread.                                    *)
LEMMA PlacesEnd ==
  ASSUME RuntimeTypeOK, PlaceInv, NEW t \in Threads,
         NEW c \in Ctx, Runs(t, c),
         active' = [active EXCEPT ![t] = NoCtx], handover' = handover,
         UNCHANGED queueVars
  PROVE  Changes({c}, {}, {})
<1>1. /\ active[t] = c /\ handover[t] = NoCtx /\ active'[t] = NoCtx
      /\ \A u \in Threads \ {t} : active'[u] = active[u]
  BY DEF Runs, RuntimeTypeOK
<1>2. NoCtx \notin Ctx /\ \A u \in Threads : ~Home(NoCtx, u)
  BY HomeFacts, ContextAssumption
<1>3. /\ ~Queued(c)
      /\ \A u \in Threads : handover[u] # c
      /\ \A u \in Threads \ {t} : active[u] # c
  BY <1>1, <1>2 DEF PlaceInv
<1>4. QueueInv' /\ \A y : Queued(y)' <=> Queued(y)
  BY DEF queueVars, PlaceInv, QueueInv, Queued
<1>5. PlaceInv'
  BY <1>1, <1>2, <1>4 DEF PlaceInv
<1>6. \A y \in Ctx : Resting(y)' <=> Resting(y)
  BY <1>4 DEF Resting
<1>7. \A y \in Ctx : Held(y)' <=> Held(y) /\ y # c
  BY <1>1, <1>2, <1>3, <1>6 DEF Held, Resting
<1> QED BY <1>5, <1>6, <1>7 DEF Changes

-----------------------------------------------------------------------------
(* The contexts that are somewhere are the ones that should be: the fiber  *)
(* of a work from its launch on, with nothing left of a completed work in  *)
(* a queue; a dispatcher until its thread ends; a main context unless it   *)
(* waits, or is linked to the remote ready queue, which it is not while    *)
(* it waits.                                                               *)
HeldInv ==
  /\ \A f \in Fibers :
       /\ work[f] = "launched" => Held(f)
       /\ work[f] \in {"new", "offered", "dropped"} => ~Held(f)
       /\ Resting(f) => work[f] = "launched"
  /\ \A t \in Threads :
       /\ Held(Disp(t)) <=> mainpc[t] # "exited"
       /\ Held(Main(t)) <=> ~Blocked(t) /\ ~remote[t]
       /\ Blocked(t) => ~remote[t]

HolderInv == PlaceInv /\ HeldInv

(* A work changes at most from a state without to another without a fiber, *)
(* and a waiting main context at most to the remote ready queue.           *)
Steady ==
  /\ \A f \in Fibers :
       \/ work'[f] = work[f]
       \/ {work[f], work'[f]} \subseteq {"new", "offered", "dropped"}
  /\ \A t \in Threads :
       /\ mainpc'[t] = "exited" <=> mainpc[t] = "exited"
       /\ Blocked(t)' \/ remote'[t] <=> Blocked(t) \/ remote[t]
       /\ Blocked(t)' => ~remote'[t]

(* Fibers, main contexts and dispatchers differ.                           *)
LEMMA Distinct ==
  /\ Fibers \subseteq Ctx
  /\ \A f \in Fibers, t \in Threads : f # Main(t) /\ f # Disp(t)
  /\ \A t \in Threads : Main(t) \in Ctx /\ Disp(t) \in Ctx
  /\ \A t, u \in Threads : Main(t) # Disp(u)
  /\ \A t, u \in Threads : Main(t) = Main(u) \/ Disp(t) = Disp(u) => t = u
BY ContextAssumption DEF Ctx, Pinned, Main, Disp

(* Steps that do not let a context appear or disappear.                    *)
LEMMA HeldSteady ==
  ASSUME TypeOK, HolderInv, Steady,
         NEW rest \in SUBSET Ctx, Changes({}, {}, rest),
         \A f \in Fibers \cap rest : work[f] = "launched"
  PROVE  HolderInv'
<1>1. \A f \in Fibers : Resting(f)' => work[f] = "launched"
  BY Distinct DEF Changes, HolderInv, HeldInv
<1>2. \A y \in Ctx : Held(y)' <=> Held(y)
  BY DEF Changes
<1>3. HeldInv'
  BY <1>1, <1>2, Distinct DEF Steady, HolderInv, HeldInv
<1> QED BY <1>3 DEF Changes, HolderInv

(* Steps that leave every context where it is.                             *)
LEMMA HeldSame ==
  ASSUME TypeOK, HolderInv, Steady,
         UNCHANGED <<active, handover, shared, local>>
  PROVE  HolderInv'
BY PlacesSame, HeldSteady DEF HolderInv

(* The main context of t waits or ends: it is no longer anywhere.          *)
LEMMA MainBlocks ==
  ASSUME TypeOK, HolderInv, NEW t \in Threads,
         Runs(t, Main(t)), mainpc[t] # "exited",
         NEW b \in {"popwait", "getwait", "finishwait", "exiting"},
         mainpc' = [mainpc EXCEPT ![t] = b], Switch(t, NoCtx),
         UNCHANGED <<remote, work>>
  PROVE  HolderInv'
<1>1. PICK ctx \in Ctx \cup {NoCtx} :
        /\ PickNext(t, ctx)
        /\ active' = [active EXCEPT ![t] = ctx]
        /\ handover' = [handover EXCEPT ![t] = NoCtx]
  BY DEF Switch
<1>2. Changes({Main(t)}, {}, {})
  BY <1>1, Distinct, PlacesResume DEF HolderInv, TypeOK
<1>3. Held(Main(t))
  BY DEF Runs, Held
<1>4. /\ \A y \in Ctx : Held(y)' <=> Held(y) /\ y # Main(t)
      /\ \A y \in Ctx : Resting(y)' => Resting(y)
  BY <1>2 DEF Changes
<1>5. mainpc'[t] = b /\ \A u \in Threads \ {t} : mainpc'[u] = mainpc[u]
  BY DEF TypeOK, PoolTypeOK
<1>6. \A f \in Fibers :
        /\ work'[f] = "launched" => Held(f)'
        /\ work'[f] \in {"new", "offered", "dropped"} => ~Held(f)'
        /\ Resting(f)' => work'[f] = "launched"
  BY <1>4, Distinct DEF HolderInv, HeldInv
<1>7. ASSUME NEW u \in Threads
      PROVE  /\ Held(Disp(u))' <=> mainpc'[u] # "exited"
             /\ Held(Main(u))' <=> ~Blocked(u)' /\ ~remote'[u]
             /\ Blocked(u)' => ~remote'[u]
  <2>1. CASE u = t
    BY <1>3, <1>4, <1>5, <2>1, Distinct DEF HolderInv, HeldInv, Blocked
  <2>2. CASE u # t
    BY <1>4, <1>5, <2>2, Distinct DEF HolderInv, HeldInv, Blocked
  <2> QED BY <2>1, <2>2
<1> QED BY <1>2, <1>6, <1>7 DEF Changes, HolderInv, HeldInv

(* The steps of run().                                                     *)
LEMMA MainStepHeld ==
  ASSUME TypeOK, HolderInv, NEW t \in Threads, MainStep(t)
  PROVE  HolderInv'
<1> USE ThreadZero
<1>1. CASE UseSchedulingAlgorithm(t) \/ ConstructorBarrier(t)
             \/ StartingBlock(t) \/ GetDone
  <2>1. UNCHANGED <<active, handover, shared, local, remote, work>>
    BY <1>1 DEF UseSchedulingAlgorithm, ConstructorBarrier, StartingBlock,
                GetDone, threadVars, queueVars, wakeVars, workVars
  <2>2. PICK u \in Threads :
          /\ mainpc[u] \in {"new", "constructed", "start", "get"}
          /\ \E s \in {"constructed", "start", "pop", "finish"} :
               mainpc' = [mainpc EXCEPT ![u] = s]
    BY <1>1 DEF UseSchedulingAlgorithm, ConstructorBarrier, StartingBlock, GetDone
  <2>3. Steady
    BY <2>1, <2>2 DEF Steady, Blocked, TypeOK, PoolTypeOK, HolderInv, HeldInv
  <2> QED BY <2>1, <2>3, HeldSame
<1>2. ASSUME NEW f \in Fibers, PopWork(f)
      PROVE  HolderInv'
  <2>1. /\ Runs(0, Main(0)) /\ work[f] = "offered"
        /\ work' = [work EXCEPT ![f] = "launched"]
        /\ active' = [active EXCEPT ![0] = f]
        /\ handover' = [handover EXCEPT ![0] = Main(0)]
        /\ UNCHANGED queueVars /\ UNCHANGED <<mainpc, remote>>
    BY <1>2 DEF PopWork, wakeVars
  <2>2. f \in Ctx \ Pinned /\ ~Held(f) /\ Main(0) \in Ctx
    BY <2>1, ContextAssumption, Distinct DEF HolderInv, HeldInv
  <2>3. Changes({}, {f}, {Main(0)})
    BY <2>1, <2>2, PlacesLaunch DEF HolderInv, TypeOK
  <2>4. /\ \A y \in Ctx : Held(y)' <=> Held(y) \/ y = f
        /\ \A y \in Ctx : Resting(y)' => Resting(y) \/ y = Main(0)
    BY <2>3 DEF Changes
  <2>5. work'[f] = "launched" /\ \A g \in Fibers \ {f} : work'[g] = work[g]
    BY <2>1 DEF TypeOK, PoolTypeOK
  <2>6. \A g \in Fibers :
          /\ work'[g] = "launched" => Held(g)'
          /\ work'[g] \in {"new", "offered", "dropped"} => ~Held(g)'
          /\ Resting(g)' => work'[g] = "launched"
    BY <2>4, <2>5, Distinct DEF HolderInv, HeldInv
  <2>7. \A u \in Threads :
          /\ Held(Disp(u))' <=> mainpc'[u] # "exited"
          /\ Held(Main(u))' <=> ~Blocked(u)' /\ ~remote'[u]
          /\ Blocked(u)' => ~remote'[u]
    BY <2>1, <2>4, Distinct DEF HolderInv, HeldInv, Blocked
  <2> QED BY <2>3, <2>6, <2>7 DEF Changes, HolderInv, HeldInv
<1>3. CASE PopEmpty
  <2>1. CASE closed
    <3>1. /\ UNCHANGED <<active, handover, shared, local, remote, work>>
          /\ mainpc[0] = "pop" /\ mainpc' = [mainpc EXCEPT ![0] = "get"]
      BY <1>3, <2>1 DEF PopEmpty, queueVars, wakeVars, workVars
    <3>2. Steady
      BY <3>1 DEF Steady, Blocked, TypeOK, PoolTypeOK, HolderInv, HeldInv
    <3> QED BY <3>1, <3>2, HeldSame
  <2>2. CASE ~closed
    BY <1>3, <2>2, MainBlocks DEF PopEmpty, wakeVars, workVars
  <2> QED BY <2>1, <2>2
<1>4. CASE GetFuture
  <2>1. CASE UNCHANGED <<mainpc, active, handover, queueVars>>
    <3>1. UNCHANGED <<active, handover, shared, local, mainpc, remote, work>>
      BY <1>4, <2>1 DEF GetFuture, queueVars, wakeVars, workVars
    <3>2. Steady
      BY <3>1 DEF Steady, Blocked, HolderInv, HeldInv
    <3> QED BY <3>1, <3>2, HeldSame
  <2>2. CASE Switch(0, NoCtx) /\ \E b \in {"getwait", "exiting"} :
               mainpc' = [mainpc EXCEPT ![0] = b]
    BY <1>4, <2>2, MainBlocks DEF GetFuture, wakeVars, workVars
  <2> QED BY <1>4, <2>1, <2>2 DEF GetFuture
<1>5. CASE FinishLine(t)
  <2>1. CASE \A u \in Threads \ {t} : mainpc[u] = "finishwait"
    <3>1. /\ UNCHANGED <<active, handover, shared, local, work>>
          /\ mainpc[t] = "finish"
          /\ mainpc' = [u \in Threads |-> "released"]
          /\ remote' = [u \in Threads |-> remote[u] \/ u \in Threads \ {t}]
      BY <1>5, <2>1 DEF FinishLine, WakeRemote, queueVars, workVars
    <3>2. \A f \in Fibers : work'[f] = work[f]
      BY <3>1
    <3>3. ASSUME NEW u \in Threads
          PROVE  /\ mainpc'[u] = "exited" <=> mainpc[u] = "exited"
                 /\ Blocked(u)' \/ remote'[u] <=> Blocked(u) \/ remote[u]
                 /\ Blocked(u)' => ~remote'[u]
      <4>1. CASE u = t
        BY <3>1, <4>1 DEF Blocked
      <4>2. CASE u # t
        BY <2>1, <3>1, <4>2 DEF Blocked
      <4> QED BY <4>1, <4>2
    <3> QED BY <3>1, <3>2, <3>3, HeldSame DEF Steady
  <2>2. CASE ~\A u \in Threads \ {t} : mainpc[u] = "finishwait"
    BY <1>5, <2>2, MainBlocks DEF FinishLine, NoWake, wakeVars, workVars
  <2> QED BY <2>1, <2>2
<1>6. CASE RunReturns(t)
  BY <1>6, MainBlocks DEF RunReturns, wakeVars, workVars
<1> QED BY <1>1, <1>2, <1>3, <1>4, <1>5, <1>6 DEF MainStep

(* A waiting main context is made ready on its thread: it was nowhere.     *)
LEMMA MainReadied ==
  ASSUME TypeOK, HolderInv, NEW t \in Threads, Awakened(t, Main(t)),
         ~Held(Main(t)), UNCHANGED <<active, handover>>
  PROVE  /\ PlaceInv'
         /\ \A y \in Ctx : Held(y)' <=> Held(y) \/ y = Main(t)
         /\ \A y \in Ctx : Resting(y)' => Resting(y) \/ y = Main(t)
<1>1. Main(t) \in Ctx /\ \A u \in Threads : Home(Main(t), u) => u = t
  BY Distinct, HomeFacts DEF Home
<1>2. Changes({}, {Main(t)}, {Main(t)})
  BY <1>1, PlacesAwakened DEF HolderInv, TypeOK
<1> QED BY <1>2 DEF Changes

(* The steps of the runtime.                                               *)
LEMMA RuntimeStepHeld ==
  ASSUME TypeOK, HolderInv, NEW t \in Threads, RuntimeStep(t)
  PROVE  HolderInv'
<1>a. UNCHANGED <<mainpc, remote, work>> => Steady
  BY DEF Steady, Blocked, HolderInv, HeldInv
<1>1. CASE Handover(t)
  <2>1. UNCHANGED <<mainpc, remote, work>>
    BY <1>1 DEF Handover, runVars, wakeVars, workVars
  <2>2. Changes({}, {}, {})
    BY <1>1, PlacesHandover DEF HolderInv, TypeOK
  <2> QED BY <1>a, <2>1, <2>2, HeldSteady
<1>2. CASE DispatchTop(t) /\ ~remote[t]
  <2>1. UNCHANGED <<active, handover, shared, local, mainpc, work>>
    BY <1>2 DEF DispatchTop, runVars, queueVars, workVars
  <2>2. remote' = remote
    BY <1>2 DEF DispatchTop, TypeOK, RuntimeTypeOK
  <2> QED BY <1>a, <2>1, <2>2, HeldSame
<1>3. CASE DispatchTop(t) /\ remote[t]
  <2>1. /\ Awakened(t, Main(t)) /\ remote' = [remote EXCEPT ![t] = FALSE]
        /\ UNCHANGED <<active, handover, mainpc, work>>
    BY <1>3 DEF DispatchTop, runVars, workVars
  <2>2. ~Held(Main(t)) /\ ~Blocked(t)
    BY <1>3 DEF HolderInv, HeldInv
  <2>3. /\ PlaceInv'
        /\ \A y \in Ctx : Held(y)' <=> Held(y) \/ y = Main(t)
        /\ \A y \in Ctx : Resting(y)' => Resting(y) \/ y = Main(t)
    BY <2>1, <2>2, MainReadied
  <2>4. ~remote'[t] /\ \A u \in Threads \ {t} : remote'[u] = remote[u]
    BY <2>1 DEF TypeOK, RuntimeTypeOK
  <2>5. \A f \in Fibers :
          /\ work'[f] = "launched" => Held(f)'
          /\ work'[f] \in {"new", "offered", "dropped"} => ~Held(f)'
          /\ Resting(f)' => work'[f] = "launched"
    BY <2>1, <2>3, Distinct DEF HolderInv, HeldInv
  <2>6. \A u \in Threads :
          /\ Held(Disp(u))' <=> mainpc'[u] # "exited"
          /\ Held(Main(u))' <=> ~Blocked(u)' /\ ~remote'[u]
          /\ Blocked(u)' => ~remote'[u]
    BY <2>1, <2>2, <2>3, <2>4, Distinct DEF HolderInv, HeldInv, Blocked
  <2> QED BY <2>3, <2>5, <2>6 DEF HolderInv, HeldInv
<1>4. CASE DispatchPick(t)
  <2>1. PICK ctx \in Ctx \cup {NoCtx} :
          /\ PickNext(t, ctx)
          /\ IF ctx = NoCtx
             THEN UNCHANGED <<active, handover>>
             ELSE /\ active' = [active EXCEPT ![t] = ctx]
                  /\ handover' = [handover EXCEPT ![t] = Disp(t)]
    BY <1>4 DEF DispatchPick
  <2>2. Runs(t, Disp(t)) /\ UNCHANGED <<mainpc, remote, work>>
    BY <1>4 DEF DispatchPick, runVars, wakeVars, workVars
  <2>3. CASE ctx = NoCtx
    <3>1. Changes({}, {}, {})
      BY <2>1, <2>3, PlacesNothing DEF HolderInv, TypeOK
    <3> QED BY <1>a, <2>2, <3>1, HeldSteady
  <2>4. CASE ctx # NoCtx
    <3>1. Changes({}, {}, {Disp(t)})
      BY <2>1, <2>2, <2>4, Distinct, PlacesResume DEF HolderInv, TypeOK
    <3>2. {Disp(t)} \in SUBSET Ctx /\ Fibers \cap {Disp(t)} = {}
      BY Distinct
    <3> QED BY <1>a, <2>2, <3>1, <3>2, HeldSteady
  <2> QED BY <2>3, <2>4
<1>5. CASE DispatchSuspend(t)
  <2>1. UNCHANGED <<active, handover, shared, local, mainpc, remote, work>>
    BY <1>5 DEF DispatchSuspend, runVars, queueVars, workVars
  <2> QED BY <1>a, <2>1, HeldSame
<1>6. CASE DispatchExit(t)
  <2>1. /\ Runs(t, Disp(t)) /\ mainpc[t] = "exiting"
        /\ mainpc' = [mainpc EXCEPT ![t] = "exited"]
        /\ active' = [active EXCEPT ![t] = NoCtx]
        /\ UNCHANGED <<handover, remote, work>> /\ UNCHANGED queueVars
    BY <1>6 DEF DispatchExit, workVars
  <2>2. Changes({Disp(t)}, {}, {})
    BY <2>1, Distinct, PlacesEnd DEF HolderInv, TypeOK
  <2>3. /\ \A y \in Ctx : Held(y)' <=> Held(y) /\ y # Disp(t)
        /\ \A y \in Ctx : Resting(y)' => Resting(y)
    BY <2>2 DEF Changes
  <2>4. /\ mainpc'[t] = "exited"
        /\ \A u \in Threads \ {t} : mainpc'[u] = mainpc[u]
    BY <2>1 DEF TypeOK, PoolTypeOK
  <2>5. \A f \in Fibers :
          /\ work'[f] = "launched" => Held(f)'
          /\ work'[f] \in {"new", "offered", "dropped"} => ~Held(f)'
          /\ Resting(f)' => work'[f] = "launched"
    BY <2>1, <2>3, Distinct DEF HolderInv, HeldInv
  <2>6. \A u \in Threads :
          /\ Held(Disp(u))' <=> mainpc'[u] # "exited"
          /\ Held(Main(u))' <=> ~Blocked(u)' /\ ~remote'[u]
          /\ Blocked(u)' => ~remote'[u]
    BY <2>1, <2>3, <2>4, Distinct DEF HolderInv, HeldInv, Blocked
  <2> QED BY <2>2, <2>5, <2>6 DEF Changes, HolderInv, HeldInv
<1> QED BY <1>1, <1>2, <1>3, <1>4, <1>5, <1>6 DEF RuntimeStep

(* The steps of the fibers.                                                *)
LEMMA FiberStepHeld ==
  ASSUME TypeOK, HolderInv, NEW t \in Threads, FiberStep(t)
  PROVE  HolderInv'
<1> PICK f \in Fibers :
       FiberYield(t, f) \/ FiberDone(t, f) \/ FiberTerminate(t, f)
  BY DEF FiberStep
<1>a. f \in Ctx
  BY Distinct
<1>1. CASE FiberYield(t, f)
  <2>1. /\ Runs(t, f) /\ work[f] = "launched" /\ Switch(t, f)
        /\ UNCHANGED <<mainpc, remote, work>>
    BY <1>1 DEF FiberYield, runVars, wakeVars
  <2>2. Changes({}, {}, {f})
    BY <1>a, <2>1, PlacesResume DEF Switch, HolderInv, TypeOK
  <2>3. Steady
    BY <2>1 DEF Steady, Blocked, HolderInv, HeldInv
  <2> QED BY <1>a, <2>1, <2>2, <2>3, HeldSteady
<1>2. CASE FiberTerminate(t, f)
  <2>1. /\ Runs(t, f) /\ work[f] \in {"value", "exception"}
        /\ Switch(t, NoCtx) /\ UNCHANGED <<mainpc, remote, work>>
    BY <1>2 DEF FiberTerminate, runVars, wakeVars, workVars
  <2>2. Changes({f}, {}, {})
    BY <1>a, <2>1, PlacesResume DEF Switch, HolderInv, TypeOK
  <2>3. /\ \A y \in Ctx : Held(y)' <=> Held(y) /\ y # f
        /\ \A y \in Ctx : Resting(y)' => Resting(y)
    BY <2>2 DEF Changes
  <2>4. HeldInv'
    BY <2>1, <2>3, Distinct DEF HolderInv, HeldInv, Blocked
  <2> QED BY <2>2, <2>4 DEF Changes, HolderInv
<1>3. CASE FiberDone(t, f)
  <2>1. /\ Runs(t, f) /\ UNCHANGED <<active, handover>>
        /\ \E v \in {"value", "exception"} : work' = [work EXCEPT ![f] = v]
    BY <1>3 DEF FiberDone, threadVars
  <2>2. /\ work'[f] \in {"value", "exception"}
        /\ \A g \in Fibers \ {f} : work'[g] = work[g]
    BY <2>1 DEF TypeOK, PoolTypeOK
  <2>3. ~Resting(f)
    BY <1>a, <2>1, ContextAssumption
       DEF Runs, Resting, HolderInv, PlaceInv
  <2>4. CASE Awakened(0, Main(0)) /\ mainpc[0] = "getwait"
               /\ mainpc' = [mainpc EXCEPT ![0] = "get"] /\ remote' = remote
    <3>1. ~Held(Main(0)) /\ ~remote[0] /\ mainpc'[0] = "get"
      BY <2>4, ThreadZero DEF HolderInv, HeldInv, Blocked, TypeOK, PoolTypeOK
    <3>2. \A u \in Threads \ {0} : mainpc'[u] = mainpc[u]
      BY <2>4 DEF TypeOK, PoolTypeOK
    <3>3. /\ PlaceInv'
          /\ \A y \in Ctx : Held(y)' <=> Held(y) \/ y = Main(0)
          /\ \A y \in Ctx : Resting(y)' => Resting(y) \/ y = Main(0)
      BY <2>1, <2>4, <3>1, ThreadZero, MainReadied
    <3>4. \A g \in Fibers :
            /\ work'[g] = "launched" => Held(g)'
            /\ work'[g] \in {"new", "offered", "dropped"} => ~Held(g)'
            /\ Resting(g)' => work'[g] = "launched"
      BY <2>2, <2>3, <3>3, ThreadZero, Distinct DEF HolderInv, HeldInv
    <3>5. \A u \in Threads :
            /\ Held(Disp(u))' <=> mainpc'[u] # "exited"
            /\ Held(Main(u))' <=> ~Blocked(u)' /\ ~remote'[u]
            /\ Blocked(u)' => ~remote'[u]
      BY <2>4, <3>1, <3>2, <3>3, ThreadZero, Distinct
         DEF HolderInv, HeldInv, Blocked
    <3> QED BY <3>3, <3>4, <3>5 DEF HolderInv, HeldInv
  <2>5. CASE /\ UNCHANGED queueVars
             /\ \/ UNCHANGED <<mainpc, remote>>
                \/ /\ mainpc[0] = "getwait"
                   /\ mainpc' = [mainpc EXCEPT ![0] = "get"]
                   /\ remote' = [u \in Threads |-> remote[u] \/ u \in {0}]
    <3>1. Changes({}, {}, {})
      BY <2>1, <2>5, PlacesSame DEF HolderInv, queueVars
    <3>2. /\ \A y \in Ctx : Held(y)' <=> Held(y)
          /\ \A y \in Ctx : Resting(y)' => Resting(y)
      BY <3>1 DEF Changes
    <3>3. \A g \in Fibers :
            /\ work'[g] = "launched" => Held(g)'
            /\ work'[g] \in {"new", "offered", "dropped"} => ~Held(g)'
            /\ Resting(g)' => work'[g] = "launched"
      BY <2>2, <2>3, <3>2, Distinct DEF HolderInv, HeldInv
    <3>4. ASSUME NEW u \in Threads
          PROVE  /\ mainpc'[u] = "exited" <=> mainpc[u] = "exited"
                 /\ Blocked(u)' \/ remote'[u] <=> Blocked(u) \/ remote[u]
                 /\ Blocked(u)' => ~remote'[u]
      BY <2>5, ThreadZero
         DEF HolderInv, HeldInv, Blocked, TypeOK, PoolTypeOK, RuntimeTypeOK
    <3>5. \A u \in Threads :
            /\ Held(Disp(u))' <=> mainpc'[u] # "exited"
            /\ Held(Main(u))' <=> ~Blocked(u)' /\ ~remote'[u]
            /\ Blocked(u)' => ~remote'[u]
      BY <3>2, <3>4, Distinct DEF HolderInv, HeldInv
    <3> QED BY <3>1, <3>3, <3>5 DEF Changes, HolderInv, HeldInv
  <2> QED BY <1>3, <2>4, <2>5 DEF FiberDone, WakeRemote, NoWake, wakeVars
<1> QED BY <1>1, <1>2, <1>3

(* The steps of the client.                                                *)
LEMMA ClientHeld ==
  ASSUME TypeOK, HolderInv, ClientStep \/ ClientCall
  PROVE  HolderInv'
<1> USE DEF TypeOK, PoolTypeOK
<1>1. UNCHANGED <<active, handover, shared, local>>
  BY DEF ClientStep, Spawn, ConstructorArrives, ConstructorReturns, JoinGet,
         JoinReturns, ClientCall, Submit, Close, Join, Destroy, threadVars,
         queueVars
<1>2. \A f \in Fibers :
        \/ work'[f] = work[f]
        \/ {work[f], work'[f]} \subseteq {"new", "offered", "dropped"}
  <2>1. CASE \E f \in Fibers : Submit(f)
    BY <2>1 DEF Submit
  <2>2. CASE work' = work
    BY <2>2
  <2> QED BY <2>1, <2>2
          DEF ClientStep, Spawn, ConstructorArrives, ConstructorReturns, JoinGet,
              JoinReturns, ClientCall, Close, Join, Destroy, workVars
<1>3. \/ UNCHANGED <<mainpc, remote>>
      \/ /\ remote' = remote
         /\ \E t \in Threads : /\ mainpc[t] = "unborn"
                               /\ mainpc' = [mainpc EXCEPT ![t] = "new"]
      \/ /\ mainpc[0] = "popwait" /\ mainpc' = [mainpc EXCEPT ![0] = "pop"]
         /\ remote' = [u \in Threads |-> remote[u] \/ u \in {0}]
  <2>1. CASE ClientStep
    BY <2>1 DEF ClientStep, Spawn, ConstructorArrives, ConstructorReturns,
                JoinGet, JoinReturns, runVars, wakeVars
  <2>2. CASE ClientCall
    BY <2>2 DEF ClientCall, Submit, Close, Join, Destroy, EnterJoin,
                WakeConsumer, WakeRemote
  <2> QED BY <2>1, <2>2
<1>4. ASSUME NEW u \in Threads
      PROVE  /\ mainpc'[u] = "exited" <=> mainpc[u] = "exited"
             /\ Blocked(u)' \/ remote'[u] <=> Blocked(u) \/ remote[u]
             /\ Blocked(u)' => ~remote'[u]
  <2>1. Blocked(u) => ~remote[u]
    BY DEF HolderInv, HeldInv
  <2>2. CASE UNCHANGED <<mainpc, remote>>
    BY <2>1, <2>2 DEF Blocked
  <2>3. ASSUME NEW t \in Threads, mainpc[t] = "unborn", remote' = remote,
               mainpc' = [mainpc EXCEPT ![t] = "new"]
        PROVE  /\ mainpc'[u] = "exited" <=> mainpc[u] = "exited"
               /\ Blocked(u)' \/ remote'[u] <=> Blocked(u) \/ remote[u]
               /\ Blocked(u)' => ~remote'[u]
    BY <2>1, <2>3 DEF Blocked
  <2>4. CASE /\ mainpc[0] = "popwait" /\ mainpc' = [mainpc EXCEPT ![0] = "pop"]
             /\ remote' = [v \in Threads |-> remote[v] \/ v \in {0}]
    BY <2>1, <2>4, ThreadZero DEF Blocked
  <2> QED BY <1>3, <2>2, <2>3, <2>4
<1> QED BY <1>1, <1>2, <1>4, HeldSame DEF Steady

(* In every state no context of the pool is in two places, a pinned one is *)
(* on its thread, and those are somewhere that should be: awakened() is    *)
(* never given a context that is already queued or running.                *)
THEOREM HolderInvariant == Spec => [](TypeOK /\ HolderInv)
<1>1. Init => HolderInv
  <2> SUFFICES ASSUME Init
               PROVE  HolderInv
    OBVIOUS
  <2>1. /\ shared = << >> /\ \A u \in Threads : local[u] = <<Disp(u)>>
        /\ \A u \in Threads : active[u] = Main(u) /\ handover[u] = NoCtx
        /\ \A u \in Threads : mainpc[u] = "unborn" /\ ~remote[u]
        /\ \A f \in Fibers : work[f] = "new"
    BY DEF Init, SW!CreatePoolCtx
  <2>2. \A x : /\ DOMAIN <<x>> = {1} /\ <<x>>[1] = x
               /\ ~In(x, << >>)
    BY DEF In
  <2>3. \A u \in Threads : DOMAIN local[u] = {1} /\ local[u][1] = Disp(u)
    BY <2>1, <2>2
  <2>4. /\ \A x : ~In(x, shared)
        /\ \A u \in Threads : \A x : In(x, local[u]) <=> x = Disp(u)
        /\ NoDup(shared) /\ \A u \in Threads : NoDup(local[u])
    <3>1. NoDup(<< >>)
      BY DEF NoDup
    <3>2. ASSUME NEW u \in Threads, NEW x
          PROVE  (In(x, local[u]) <=> x = Disp(u)) /\ NoDup(local[u])
      BY <2>3 DEF In, NoDup
    <3> QED BY <2>1, <2>2, <3>1, <3>2
  <2>5. \A x : Queued(x) <=> \E u \in Threads : x = Disp(u)
    BY <2>4 DEF Queued
  <2>6. NoCtx \notin Ctx /\ \A u \in Threads : ~Home(NoCtx, u)
    BY HomeFacts, ContextAssumption
  <2>7. QueueInv
    BY <2>4, Distinct DEF QueueInv, Home
  <2>8. PlaceInv
    BY <2>1, <2>5, <2>6, <2>7, Distinct DEF PlaceInv, Home
  <2>9. /\ \A x \in Ctx : Resting(x) <=> \E u \in Threads : x = Disp(u)
        /\ \A x \in Ctx : Held(x) <=> \E u \in Threads : x \in {Disp(u), Main(u)}
    BY <2>1, <2>5, <2>6 DEF Held, Resting
  <2>10. HeldInv
    BY <2>1, <2>9, Distinct DEF HeldInv, Blocked
  <2> QED BY <2>8, <2>10 DEF HolderInv
<1>2. TypeOK /\ HolderInv /\ [Next]_vars => HolderInv'
  <2> SUFFICES ASSUME TypeOK, HolderInv, [Next]_vars
               PROVE  HolderInv'
    OBVIOUS
  <2>1. CASE UNCHANGED vars
    <3>1. UNCHANGED <<active, handover, shared, local, mainpc, remote, work>>
      BY <2>1 DEF vars, threadVars, queueVars, runVars, wakeVars, workVars
    <3>2. Steady
      BY <3>1 DEF Steady, Blocked, HolderInv, HeldInv
    <3> QED BY <3>1, <3>2, HeldSame
  <2> QED
    BY <2>1, MainStepHeld, RuntimeStepHeld, FiberStepHeld, ClientHeld
       DEF Next, ThreadStep, Ended
<1> QED BY <1>1, <1>2, TypeCorrect, PTL DEF Spec

-----------------------------------------------------------------------------
(* The places counted. *)

(* A context that is somewhere has one holder, any other has none.         *)
LEMMA HoldersCounted ==
  ASSUME PlaceInv, NEW x \in Ctx
  PROVE  /\ Held(x) => \E h : Holders(x) = {h}
         /\ ~Held(x) => Holders(x) = {}
         /\ ~Resting(x) => \A h \in Holders(x) : h[1] = "active"
         /\ \A t \in Threads, h \in Holders(x) :
              Home(x, t) => h[1] # "shared" /\ h[2] = t
<1>1. \A h : h \in Holders(x) <=>
        \/ \E t \in Threads : h = <<"active", t>> /\ active[t] = x
        \/ \E t \in Threads : h = <<"handover", t>> /\ handover[t] = x
        \/ \E k \in DOMAIN shared : h = <<"shared", k>> /\ shared[k] = x
        \/ \E t \in Threads : \E k \in DOMAIN local[t] :
             h = <<"local", t, k>> /\ local[t][k] = x
  BY DEF Holders
<1>2. x # NoCtx
  BY ContextAssumption
<1>3. /\ \A t, u \in Threads : active[t] = x /\ active[u] = x => t = u
      /\ \A t, u \in Threads : handover[t] = x /\ handover[u] = x => t = u
      /\ \A t, u \in Threads : ~(active[t] = x /\ handover[u] = x)
      /\ \A t \in Threads : active[t] = x \/ handover[t] = x => ~Queued(x)
      /\ \A t, u \in Threads :
           (active[t] = x \/ handover[t] = x) /\ Home(x, u) => u = t
  BY <1>2 DEF PlaceInv
<1>4. /\ \A k, l \in DOMAIN shared : shared[k] = x /\ shared[l] = x => k = l
      /\ \A t \in Threads : \A k, l \in DOMAIN local[t] :
           local[t][k] = x /\ local[t][l] = x => k = l
      /\ \A k \in DOMAIN shared : shared[k] = x => Queued(x)
      /\ \A t \in Threads : \A k \in DOMAIN local[t] :
           local[t][k] = x => Queued(x) /\ In(x, local[t]) /\ ~In(x, shared)
      /\ \A t, u \in Threads : In(x, local[t]) /\ In(x, local[u]) => t = u
      /\ \A t, u \in Threads : In(x, local[t]) /\ Home(x, u) => u = t
      /\ \A t \in Threads : Home(x, t) => ~In(x, shared)
  BY HomeFacts DEF PlaceInv, QueueInv, NoDup, Queued, In
<1>5. \A g, h \in Holders(x) : g = h
  BY <1>1, <1>3, <1>4 DEF In
<1>6. Held(x) <=> \E h : h \in Holders(x)
  BY <1>1 DEF Held, Resting, Queued, In
<1>7. ~Resting(x) => \A h \in Holders(x) : h[1] = "active"
  BY <1>1, <1>4 DEF Resting
<1>8. \A t \in Threads, h \in Holders(x) :
        Home(x, t) => h[1] # "shared" /\ h[2] = t
  BY <1>1, <1>3, <1>4 DEF In
<1> HIDE DEF Holders
<1>9. Held(x) => \E h : Holders(x) = {h}
  <2> SUFFICES ASSUME Held(x)
               PROVE  \E h : Holders(x) = {h}
    OBVIOUS
  <2>1. PICK h : h \in Holders(x)
    BY <1>6
  <2>2. Holders(x) = {h}
    BY <1>5, <2>1
  <2> QED BY <2>2
<1>10. ~Held(x) => Holders(x) = {}
  BY <1>6
<1> QED BY <1>7, <1>8, <1>9, <1>10

(* The number of holders that OneHolder and PinnedAtHome speak of.         *)
LEMMA HolderCount ==
  ASSUME PlaceInv, NEW x \in Ctx
  PROVE  Cardinality(Holders(x)) = IF Held(x) THEN 1 ELSE 0
<1>1. CASE Held(x)
  <2>1. PICK h : Holders(x) = {h}
    BY <1>1, HoldersCounted
  <2> QED BY <1>1, <2>1, FS_Singleton
<1>2. CASE ~Held(x)
  BY <1>2, HoldersCounted, FS_EmptySet
<1> QED BY <1>1, <1>2

(* No fiber is run by two threads, queued while it runs, queued twice, or  *)
(* lost, from the launch of its work to its end, whatever the scheduler    *)
(* and the number of threads that push, pop and steal.                     *)
THEOREM OneHolderCorrect == Spec => []OneHolder
<1>1. TypeOK /\ HolderInv => OneHolder
  <2> SUFFICES ASSUME HolderInv, NEW f \in Fibers
               PROVE  /\ work[f] = "launched" => Cardinality(Holders(f)) = 1
                      /\ work[f] \in {"new", "offered", "dropped"} =>
                           Holders(f) = {}
                      /\ work[f] \in {"value", "exception"} =>
                           Cardinality(Holders(f)) <= 1
                             /\ \A h \in Holders(f) : h[1] = "active"
    BY DEF OneHolder
  <2>1. /\ f \in Ctx
        /\ work[f] = "launched" => Held(f)
        /\ work[f] \in {"new", "offered", "dropped"} => ~Held(f)
        /\ work[f] # "launched" => ~Resting(f)
    BY Distinct DEF HolderInv, HeldInv
  <2>2. /\ ~Held(f) => Holders(f) = {}
        /\ ~Resting(f) => \A h \in Holders(f) : h[1] = "active"
    BY <2>1, HoldersCounted DEF HolderInv
  <2>3. Cardinality(Holders(f)) = IF Held(f) THEN 1 ELSE 0
    BY <2>1, HolderCount DEF HolderInv
  <2> QED BY <2>1, <2>2, <2>3
<1> QED BY <1>1, HolderInvariant, PTL

(* A main or dispatcher context is never on the shared queue and never on  *)
(* another thread, by a push or by a steal, and in one place: but for a    *)
(* main context that waits, and a dispatcher whose thread has ended.       *)
THEOREM PinnedCorrect == Spec => []PinnedAtHome
<1>1. TypeOK /\ HolderInv => PinnedAtHome
  <2> SUFFICES ASSUME HolderInv, NEW t \in Threads
               PROVE  /\ \A h \in Holders(Main(t)) \cup Holders(Disp(t)) :
                           h[1] # "shared" /\ h[2] = t
                      /\ Cardinality(Holders(Disp(t)))
                           = IF mainpc[t] = "exited" THEN 0 ELSE 1
                      /\ Cardinality(Holders(Main(t)))
                           = IF Blocked(t) \/ remote[t] THEN 0 ELSE 1
    BY DEF PinnedAtHome
  <2>1. /\ Main(t) \in Ctx /\ Home(Main(t), t)
        /\ Disp(t) \in Ctx /\ Home(Disp(t), t)
    BY Distinct DEF Home
  <2>2. /\ \A h \in Holders(Main(t)) : h[1] # "shared" /\ h[2] = t
        /\ \A h \in Holders(Disp(t)) : h[1] # "shared" /\ h[2] = t
    BY <2>1, HoldersCounted DEF HolderInv
  <2>3. /\ Cardinality(Holders(Disp(t))) = IF Held(Disp(t)) THEN 1 ELSE 0
        /\ Cardinality(Holders(Main(t))) = IF Held(Main(t)) THEN 1 ELSE 0
    BY <2>1, HolderCount DEF HolderInv
  <2>4. /\ Held(Disp(t)) <=> mainpc[t] # "exited"
        /\ Held(Main(t)) <=> ~Blocked(t) /\ ~remote[t]
    BY DEF HolderInv, HeldInv
  <2> QED BY <2>2, <2>3, <2>4
<1> QED BY <1>1, HolderInvariant, PTL
=============================================================================
