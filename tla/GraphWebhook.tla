---------------------------- MODULE GraphWebhook ----------------------------
(***************************************************************************)
(* The webhooks of Microsoft Graph: batches of notifications, which Graph  *)
(* posts again until they are answered 200, validated item by item against *)
(* the secrets of the subscription and of the environment and stored once  *)
(* (save_graph_notifications in ops/graph.py). Meanwhile subscriptions are *)
(* made and deleted, the secret of the environment is rotated, and old     *)
(* notifications are pruned.                                               *)
(*                                                                         *)
(* Every statement is a transaction of its own: a batch that is refused    *)
(* keeps the rows of the items in front. The environment always has a      *)
(* secret: without one every post is refused.                              *)
(***************************************************************************)
EXTENDS Integers, Sequences, SequencesExt

CONSTANTS
  Hooks,      \* subscription ids
  Notices,    \* what the unique constraint tells apart
  HookOf,     \* [Notices -> Hooks]
  Lifecycle,  \* those with a lifecycleEvent; for the others it is NULL, and the
              \* constraint holds for no two rows
  Batches,    \* the bodies Graph posts, sequences of notices; an empty one is
              \* answered 200 and leaves nothing
  Handlers,   \* requests served at once
  MaxPosts    \* bound: posts of all batches

ASSUME WebhookAssumption ==
  /\ HookOf \in [Notices -> Hooks]
  /\ Lifecycle \subseteq Notices
  /\ Batches # {} /\ Batches \subseteq Seq(Notices) \ {<<>>}
  /\ MaxPosts \in Nat

VARIABLES
  strict,     \* _requires_known_subscription
  global,     \* GRAPH_WEBHOOK_CLIENT_STATE of the processes
  secret,     \* Graph: the clientState of each subscription; "": not made
  known,      \* graph_subscriptions: the client_state of each row; "": no row
  saving,     \* subscriptions Graph has made, their row not yet saved
  handler,    \* the requests: the batch, the item and the statement they are at
  stored,     \* graph_notifications: the rows of each notice
  accepted,   \* history: batches answered 200 since the last pruning
  raced,      \* history: notices two requests were about to insert at once
  posts       \* posts so far (bounded by MaxPosts)

hookVars == <<strict, global, secret, known, saving, handler, stored, accepted, raced, posts>>

Secrets == {"old", "new"}

HookTypeOK ==
  /\ strict \in BOOLEAN
  /\ global \in Secrets
  /\ secret \in [Hooks -> Secrets \cup {""}]
  /\ known \in [Hooks -> Secrets \cup {""}]
  /\ saving \in SUBSET Hooks
  /\ \A h \in Handlers :
       /\ handler[h].batch \in Batches
       /\ handler[h].item \in 1..Len(handler[h].batch) + 1
       /\ handler[h].pc \in {"idle", "check", "exists", "insert"}
       /\ handler[h].answer \in {"", "200", "403", "404", "500"}
  /\ stored \in [Notices -> Nat]
  /\ accepted \in SUBSET Batches
  /\ raced \in SUBSET Notices
  /\ posts \in 0..MaxPosts

Idle == [h \in Handlers |-> [pc |-> "idle", batch |-> CHOOSE b \in Batches : TRUE,
                             item |-> 1, answer |-> ""]]

HookInit ==
  /\ strict \in BOOLEAN
  /\ global = "old"
  /\ secret = [u \in Hooks |-> ""]
  /\ known = [u \in Hooks |-> ""]
  /\ saving = {}
  /\ handler = Idle
  /\ stored = [n \in Notices |-> 0]
  /\ accepted = {}
  /\ raced = {}
  /\ posts = 0

-----------------------------------------------------------------------------
(* Subscriptions                                                           *)

\* create_graph_subscription: clientState is the secret of the environment.
MakeHook(u) ==
  /\ secret[u] = ""
  /\ secret' = [secret EXCEPT ![u] = global]
  /\ saving' = saving \cup {u}
  /\ UNCHANGED <<strict, global, known, handler, stored, accepted, raced, posts>>

\* save_graph_subscription: Graph echoes the clientState, or the environment
\* of the same process has it.
SaveHook(u) ==
  /\ u \in saving
  /\ known' = [known EXCEPT ![u] = secret[u]]
  /\ saving' = saving \ {u}
  /\ UNCHANGED <<strict, global, secret, handler, stored, accepted, raced, posts>>

\* Graph has deleted it; batches may be on their way.
DeleteHook(u) ==
  /\ known[u] # ""
  /\ known' = [known EXCEPT ![u] = ""]
  /\ UNCHANGED <<strict, global, secret, saving, handler, stored, accepted, raced, posts>>

\* The processes are restarted with another secret: no request gets an answer.
Rotate ==
  /\ global = "old"
  /\ global' = "new"
  /\ saving' = {}
  /\ handler' = Idle
  /\ UNCHANGED <<strict, secret, known, stored, accepted, raced, posts>>

\* prune_database_records: by age, so nothing of a batch in flight.
PruneNotices ==
  LET young == UNION {ToSet(handler[h].batch) : h \in {g \in Handlers : handler[g].pc # "idle"}}
      old   == {n \in Notices \ young : stored[n] # 0}
  IN
  /\ old # {}
  /\ stored' = [n \in Notices |-> IF n \in old THEN 0 ELSE stored[n]]
  /\ accepted' = {b \in accepted : ToSet(b) \cap old = {}}
  /\ UNCHANGED <<strict, global, secret, known, saving, handler, raced, posts>>

-----------------------------------------------------------------------------
(* Deliveries                                                              *)

Item(h) == handler[h].batch[handler[h].item]

\* Graph posts a batch, for the first time or again: after an error, or when
\* the answer took too long.
Post(h, b) ==
  /\ handler[h].pc = "idle"
  /\ posts < MaxPosts
  /\ \A i \in 1..Len(b) : secret[HookOf[b[i]]] # ""
  /\ handler' = [handler EXCEPT ![h] =
                   [pc |-> "check", batch |-> b, item |-> 1, answer |-> ""]]
  /\ posts' = posts + 1
  /\ UNCHANGED <<strict, global, secret, known, saving, stored, accepted, raced>>

AnswerPost(h, code) == handler' = [handler EXCEPT ![h] = [Idle[h] EXCEPT !.answer = code]]
Go(h, label)        == handler' = [handler EXCEPT ![h].pc = label]

\* The next item, or the answer 200.
NextItem(h) ==
  IF handler[h].item < Len(handler[h].batch)
    THEN /\ handler' = [handler EXCEPT ![h].pc = "check", ![h].item = @ + 1]
         /\ UNCHANGED accepted
    ELSE /\ AnswerPost(h, "200")
         /\ accepted' = accepted \cup {handler[h].batch}

BadExpected(u) == {global}  \* rotating the secret forgets the subscriptions

\* expected_states of _validate_client_state.
Expected(u) == {global} \cup ({known[u]} \ {""})

\* _validate_client_state, then 404 for an unknown subscription.
Check(h) ==
  LET u == HookOf[Item(h)] IN
  /\ handler[h].pc = "check"
  /\ IF secret[u] \notin Expected(u) THEN AnswerPost(h, "403")
     ELSE IF strict /\ known[u] = "" THEN AnswerPost(h, "404")
     ELSE Go(h, "exists")
  /\ UNCHANGED <<strict, global, secret, known, saving, stored, accepted, raced, posts>>

BadExists(h) ==  \* the first item that is there ends the batch
  /\ handler[h].pc = "exists"
  /\ IF stored[Item(h)] # 0
       THEN /\ AnswerPost(h, "200")
            /\ accepted' = accepted \cup {handler[h].batch}
       ELSE Go(h, "insert") /\ UNCHANGED accepted
  /\ UNCHANGED <<strict, global, secret, known, saving, stored, raced, posts>>

\* objects.filter(...).exists(): an item that is there is skipped.
Exists(h) ==
  /\ handler[h].pc = "exists"
  /\ IF stored[Item(h)] # 0 THEN NextItem(h)
     ELSE Go(h, "insert") /\ UNCHANGED accepted
  /\ UNCHANGED <<strict, global, secret, known, saving, stored, raced, posts>>

\* objects.create: IntegrityError, and a 500, when the constraint holds.
InsertNotice(h) ==
  LET n == Item(h) IN
  /\ handler[h].pc = "insert"
  /\ IF n \in Lifecycle /\ stored[n] # 0
       THEN AnswerPost(h, "500") /\ UNCHANGED <<stored, accepted>>
       ELSE NextItem(h) /\ stored' = [stored EXCEPT ![n] = @ + 1]
  /\ raced' = IF \E g \in Handlers \ {h} : handler[g].pc = "insert" /\ Item(g) = n
                THEN raced \cup {n} ELSE raced
  /\ UNCHANGED <<strict, global, secret, known, saving, posts>>

HookNext ==
  \/ \E u \in Hooks : MakeHook(u) \/ SaveHook(u) \/ DeleteHook(u)
  \/ Rotate \/ PruneNotices
  \/ \E h \in Handlers :
       \/ \E b \in Batches : Post(h, b)
       \/ Check(h) \/ Exists(h) \/ InsertNotice(h)

HookSpec == HookInit /\ [][HookNext]_hookVars

-----------------------------------------------------------------------------
(* Properties                                                              *)

\* Every item of a batch answered 200 has its row, and one row, whatever was
\* posted again or refused before: a second one only when two requests had
\* found a change notification missing at once. A lifecycle event never has two.
StoredOnce ==
  /\ \A b \in accepted : \A n \in ToSet(b) : stored[n] # 0
  /\ \A n \in Notices : n \in Lifecycle \/ n \notin raced => stored[n] <= 1

\* Graph is refused for a subscription only while that has no row: rotating
\* the secret of the environment refuses nothing (docs/GRAPH.md:56).
RefusedOnlyUnknown ==
  [][\A h \in Handlers :
       handler[h].pc = "check" /\ handler'[h].answer \in {"403", "404"}
         => known[HookOf[Item(h)]] = ""]_hookVars

=============================================================================
