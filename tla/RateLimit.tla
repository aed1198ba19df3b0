------------------------------ MODULE RateLimit ------------------------------
(***************************************************************************)
(* The sliding window of one client and path (foxrunner/rate_limit.py):    *)
(* a sorted set in Redis that all workers share, and the window every      *)
(* worker keeps in its memory while Redis fails. A request reads its clock *)
(* and then sends the commands, so requests may reach Redis in another     *)
(* order than that of their stamps; the stamp is the member of the set,    *)
(* so two requests of one tick are one.                                    *)
(*                                                                         *)
(* Workers are gunicorn's, processes with one thread: each serves one      *)
(* request at a time. A Redis that is restarted and loses the set is left  *)
(* out.                                                                    *)
(***************************************************************************)
EXTENDS Integers, FiniteSets, Sequences

CONSTANTS
  Workers,
  Window,     \* API_RATE_LIMIT_WINDOW_SECONDS, in ticks of the clock
  MaxRequests,\* API_RATE_LIMIT_MAX_REQUESTS
  Recovery,   \* REDIS_RECOVERY_SECONDS, in ticks
  MaxTick     \* bound: the clock

ASSUME RateAssumption ==
  {Window, MaxRequests, Recovery, MaxTick} \subseteq Nat \ {0}

VARIABLES
  tick,       \* the clock of the workers
  stamp,      \* each worker: the stamp of the request it serves; 0: none
  members,    \* Redis: the sorted set
  bucket,     \* each worker: its window, the stamps of what it let in
  disabled,   \* each worker: _REDIS_DISABLED_UNTIL
  admitted,   \* history: the stamps Redis admitted
  overtaken,  \* history: stamps that reached Redis after a later one
  served      \* history, each worker: the stamps of all it let in on its own

rateVars == <<tick, stamp, members, bucket, disabled, admitted, overtaken, served>>

Ticks == 1..MaxTick

RateTypeOK ==
  /\ tick \in Ticks
  /\ stamp \in [Workers -> Ticks \cup {0}]
  /\ members \in SUBSET Ticks
  /\ bucket \in [Workers -> Seq(Ticks)] /\ served \in [Workers -> Seq(Ticks)]
  /\ disabled \in [Workers -> 0..(MaxTick + Recovery)]
  /\ admitted \in SUBSET Ticks /\ overtaken \in SUBSET Ticks

RateInit ==
  /\ tick = 1
  /\ stamp = [w \in Workers |-> 0]
  /\ members = {}
  /\ bucket = [w \in Workers |-> <<>>] /\ served = [w \in Workers |-> <<>>]
  /\ disabled = [w \in Workers |-> 0]
  /\ admitted = {} /\ overtaken = {}

-----------------------------------------------------------------------------
Tick ==
  /\ tick < MaxTick
  /\ tick' = tick + 1
  /\ UNCHANGED <<stamp, members, bucket, disabled, admitted, overtaken, served>>

\* _get_redis_client gives a client, and _allow_redis reads the clock.
ReadClock(w) ==
  /\ stamp[w] = 0
  /\ disabled[w] <= tick
  /\ stamp' = [stamp EXCEPT ![w] = tick]
  /\ UNCHANGED <<tick, members, bucket, disabled, admitted, overtaken, served>>

BadCounted(now) == {m \in members : m > now - Window}  \* counted before the add

\* The set after zremrangebyscore(0, now - window) and zadd.
Counted(now) == {m \in members : m > now - Window} \cup {now}

\* The commands in one MULTI: trim, add, count. A refused request stays in.
AllowRedis(w) ==
  LET now == stamp[w] IN
  /\ now # 0
  /\ members' = Counted(now)
  /\ admitted' = IF Cardinality(Counted(now)) <= MaxRequests
                   THEN admitted \cup {now} ELSE admitted
  /\ overtaken' = IF \E m \in members : m > now THEN overtaken \cup {now} ELSE overtaken
  /\ stamp' = [stamp EXCEPT ![w] = 0]
  /\ UNCHANGED <<tick, bucket, disabled, served>>

\* k stamps in front of the window are too old, and the next is not.
Expired(b, k) ==
  /\ \A i \in 1..k : b[i] <= tick - Window
  /\ k < Len(b) => b[k + 1] > tick - Window

\* The window of the worker: the oldest are dropped, and the request is refused,
\* or let in and kept.
Local(w) ==
  \E k \in 0..Len(bucket[w]) :
    LET young == SubSeq(bucket[w], k + 1, Len(bucket[w])) IN
    /\ Expired(bucket[w], k)
    /\ \/ /\ Len(young) >= MaxRequests
          /\ bucket' = [bucket EXCEPT ![w] = young]
          /\ UNCHANGED served
       \/ /\ Len(young) < MaxRequests
          /\ bucket' = [bucket EXCEPT ![w] = Append(young, tick)]
          /\ served' = [served EXCEPT ![w] = Append(@, tick)]

\* The call of Redis fails, before the commands are done or after: the breaker
\* is tripped and the worker decides.
RedisFails(w, done) ==
  LET now == stamp[w] IN
  /\ now # 0
  /\ members' = IF done THEN Counted(now) ELSE members
  /\ overtaken' = IF done /\ \E m \in members : m > now THEN overtaken \cup {now} ELSE overtaken
  /\ disabled' = [disabled EXCEPT ![w] = tick + Recovery]
  /\ stamp' = [stamp EXCEPT ![w] = 0]
  /\ Local(w)
  /\ UNCHANGED <<tick, admitted>>

\* Redis is not asked while the breaker is open.
ServeLocally(w) ==
  /\ stamp[w] = 0
  /\ disabled[w] > tick
  /\ Local(w)
  /\ UNCHANGED <<tick, stamp, members, disabled, admitted, overtaken>>

RateNext ==
  \/ Tick
  \/ \E w \in Workers :
       \/ ReadClock(w) \/ AllowRedis(w) \/ ServeLocally(w)
       \/ \E done \in BOOLEAN : RedisFails(w, done)

RateSpec == RateInit /\ [][RateNext]_rateVars

-----------------------------------------------------------------------------
(* Properties                                                              *)

InWindow(S, t) == {m \in S : t - Window < m /\ m <= t}

\* What Redis admitted in one window of time.
SharedBound ==
  \A t \in Ticks : Cardinality(InWindow(admitted \ overtaken, t)) <= MaxRequests

\* What a worker let in: the one that comes MaxRequests later comes a whole
\* window later.
OwnBound ==
  \A w \in Workers : \A i \in 1..(Len(served[w]) - MaxRequests) :
    served[w][i + MaxRequests] >= served[w][i] + Window

\* In no window of time do the workers together admit requests of more than
\* MaxRequests ticks through Redis, nor does one of them admit more than
\* MaxRequests requests on its own, whatever fails between them. Left out are
\* requests that reached Redis after a later one, whose trimming may have
\* dropped what they should count, and those that share a tick there.
WindowBound == SharedBound /\ OwnBound

=============================================================================
