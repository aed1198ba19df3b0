------------------------------ MODULE MCServices ------------------------------
(* Instances of the modules that model the services around the jobs, for one  *)
(* run of TLC: a behaviour is one of one of them, and the others stay where   *)
(* they start.                                                                *)
EXTENDS Idempotency, GraphSubscriptions, GraphWebhook, History, Accounts, PushItTargets,
        RateLimit, SystemStatus, Access, Documents, TLC

CONSTANTS n1, n2, n3, hook1, hook2

VARIABLE part

-----------------------------------------------------------------------------
(* Values of constants                                                        *)

\* Two items of one subscription in one batch, and one of them again, which is
\* a lifecycle event, behind an item of the other subscription.
MCHookOf  == n1 :> hook1 @@ n2 :> hook1 @@ n3 :> hook2
MCBatches == {<<n1, n2>>, <<n3, n2>>}

\* A block with its lists, a function from keys to sequences of steps.
Block(type, lists) ==
  LET Inner(key, at) == {<<[key |-> key, at |-> at]>> \o p : p \in DOMAIN lists[key][at]}
      places == {<<>>} \cup UNION {UNION {Inner(key, at) : at \in DOMAIN lists[key]} :
                                   key \in DOMAIN lists}
  IN [p \in places |->
        IF p = <<>> THEN [Simple(type, TRUE, TRUE)[p] EXCEPT !.lists = DOMAIN lists]
                    ELSE lists[p[1].key][p[1].at][Tail(p)]]

Plain     == Simple("sleep", TRUE, TRUE)
Network   == Simple("require_enterprise_network", TRUE, TRUE)
Unknown   == Simple("unknown", TRUE, TRUE)
BadOption == Simple("sleep", TRUE, FALSE)
Click     == Simple("click", TRUE, TRUE)
In(key, s) == key :> <<s>>

\* One that is no block, with a list nobody looks into, is among the leaves.
MCLeaves == {Plain, BadOption, Click, Simple("click", FALSE, TRUE), Network, Unknown,
             Block("sleep", In("steps", Unknown))}
Groups   == {Block("group", lists) :
               lists \in {<<>>, "steps" :> <<>>, "steps" :> <<Plain, BadOption>>}}
            \cup {Block("parallel", In("steps", s)) : s \in MCLeaves}
Repeats  == {[Block("repeat", In("steps", Plain)) EXCEPT ![<<>>].times = n] : n \in {0, 2}}
Trying   == {Block("try", In("catch_steps", Plain)), Block("try", In("try_steps", Plain))}
            \cup {Block("try", ("try_steps" :> <<>>) @@ In("finally_steps", s)) :
                    s \in {Unknown, Simple("click", TRUE, FALSE), Network}}
Nested   == {Block("parallel", In("steps", Block("group", In("steps", s)))) : s \in {Plain, Click}}
            \cup {Block("group", In("steps", b)) : b \in Trying \cup {Network}}
MCSteps  == MCLeaves \cup Groups \cup Repeats \cup Trying \cup Nested

-----------------------------------------------------------------------------
(* Each part with the others at rest                                          *)

\* A part that is not chosen starts in one state; which of the writers append
\* is the same but for their names.
Resting ==
  /\ part # "webhook" => ~strict
  /\ LET appenders == {w \in Writers : writer[w].op = "append"} IN
     appenders = CHOOSE S \in SUBSET Writers : Cardinality(S) = Cardinality(appenders)
  /\ part # "history" => \A w \in Writers : writer[w].op = "append"
  /\ part # "accounts" => account = NoAccount
  /\ part # "targets" => \A t \in Targets : target[t] = "none"

ServicesInit ==
  /\ part \in {"keys", "subscriptions", "webhook", "history", "accounts", "targets", "rate",
               "status", "access", "documents"}
  /\ Init /\ SubsInit /\ HookInit /\ HistoryInit /\ AccountInit /\ PushInit /\ RateInit
  /\ StatusInit /\ AccessInit /\ DocumentInit
  /\ Resting

ServicesNext ==
  \/ /\ part = "keys" /\ Next
     /\ UNCHANGED <<part, subsVars, hookVars, historyVars, accountVars, pushVars,
                   rateVars, statusVars, accessVars, documentVars>>
  \/ /\ part = "subscriptions" /\ SubsNext
     /\ UNCHANGED <<part, vars, hookVars, historyVars, accountVars, pushVars,
                   rateVars, statusVars, accessVars, documentVars>>
  \/ /\ part = "webhook" /\ HookNext
     /\ UNCHANGED <<part, vars, subsVars, historyVars, accountVars, pushVars,
                   rateVars, statusVars, accessVars, documentVars>>
  \/ /\ part = "history" /\ HistoryNext
     /\ UNCHANGED <<part, vars, subsVars, hookVars, accountVars, pushVars,
                   rateVars, statusVars, accessVars, documentVars>>
  \/ /\ part = "accounts" /\ AccountNext
     /\ UNCHANGED <<part, vars, subsVars, hookVars, historyVars, pushVars,
                   rateVars, statusVars, accessVars, documentVars>>
  \/ /\ part = "targets" /\ PushNext
     /\ UNCHANGED <<part, vars, subsVars, hookVars, historyVars, accountVars,
                   rateVars, statusVars, accessVars, documentVars>>
  \/ /\ part = "rate" /\ RateNext
     /\ UNCHANGED <<part, vars, subsVars, hookVars, historyVars, accountVars,
                   pushVars, statusVars, accessVars, documentVars>>
  \/ /\ part = "status" /\ StatusNext
     /\ UNCHANGED <<part, vars, subsVars, hookVars, historyVars, accountVars,
                   pushVars, rateVars, accessVars, documentVars>>
  \/ /\ part = "access" /\ AccessNext
     /\ UNCHANGED <<part, vars, subsVars, hookVars, historyVars, accountVars,
                   pushVars, rateVars, statusVars, documentVars>>
  \/ /\ part = "documents" /\ DocumentNext
     /\ UNCHANGED <<part, vars, subsVars, hookVars, historyVars, accountVars,
                   pushVars, rateVars, statusVars, accessVars>>

servicesVars == <<part, vars, subsVars, hookVars, historyVars, accountVars, pushVars, rateVars,
                  statusVars, accessVars, documentVars>>

\* What the properties and the actions of a state depend on: answered is only
\* looked at as the answer of the step that is made.
ServicesView == <<part, vars, subsVars, hookVars, historyVars, accountVars, pushVars, rateVars,
                  statusVars, catalog, documentVars>>

ServicesSpec == ServicesInit /\ [][ServicesNext]_servicesVars

ServicesTypeOK ==
  CASE part = "keys"          -> TypeOK
    [] part = "subscriptions" -> SubsTypeOK
    [] part = "webhook"       -> HookTypeOK
    [] part = "history"       -> HistoryTypeOK
    [] part = "accounts"      -> AccountTypeOK
    [] part = "targets"       -> PushTypeOK
    [] part = "rate"          -> RateTypeOK
    [] part = "status"        -> StatusTypeOK
    [] part = "access"        -> AccessTypeOK
    [] part = "documents"     -> DocumentTypeOK

=============================================================================
