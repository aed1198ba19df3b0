---------------------------- MODULE PushItTargets ----------------------------
(***************************************************************************)
(* The PushIT targets of one owner and which of them is the default        *)
(* (accounts/models.py, accounts/pushit_api.py, accounts/services.py).     *)
(* Saving a default target clears the flag of the others in a second       *)
(* statement of the same transaction. PostgreSQL, read committed: a        *)
(* statement sees what is committed and what its transaction wrote, and    *)
(* waits for rows another transaction has written.                         *)
(***************************************************************************)
EXTENDS Naturals, FiniteSets

CONSTANTS
  Targets,    \* the names of targets, unique per owner
  Savers      \* requests; each is served once

ASSUME TargetsAssumption == Targets # {} /\ IsFiniteSet(Targets)

VARIABLES
  target,     \* the committed rows
  saver,      \* the requests: operation, statement, target, the flag they write
  wrote,      \* the rows each open transaction has written, and how
  met,        \* history: the savers of a default each saver's transaction met
  doubled     \* history: the last default was saved while another one was

pushVars == <<target, saver, wrote, met, doubled>>

Flags == {"none", "plain", "default"}  \* of a row; "none": there is no row

PushTypeOK ==
  /\ target \in [Targets -> Flags]
  /\ saver \in [Savers -> [op : {"create", "update", "delete"},
                           pc : {"new", "save", "clear", "commit", "done"},
                           on : Targets, flag : Flags]]
  /\ wrote \in [Savers -> [Targets -> Flags \cup {""}]]
  /\ met \in [Savers -> SUBSET Savers]
  /\ doubled \in BOOLEAN

Nothing == [t \in Targets |-> ""]

NoRequest(label) == [op |-> "create", pc |-> label, on |-> CHOOSE t \in Targets : TRUE,
                     flag |-> "none"]

PushInit ==
  /\ target \in [Targets -> Flags]
  /\ Cardinality({t \in Targets : target[t] = "default"}) <= 1
  /\ saver = [r \in Savers |-> NoRequest("new")]
  /\ wrote = [r \in Savers |-> Nothing]
  /\ met = [r \in Savers |-> {}]
  /\ doubled = FALSE

-----------------------------------------------------------------------------
\* The row as the transaction of r sees it; those another one has written.
Seen(r, t)   == IF wrote[r][t] # "" THEN wrote[r][t] ELSE target[t]
Locked(r, t) == \E s \in Savers \ {r} : wrote[s][t] # ""

Step(r, label) ==
  saver' = [saver EXCEPT ![r] = IF label = "done" THEN NoRequest("done") ELSE [@ EXCEPT !.pc = label]]

\* _get_owned (404 without a row) and the body: an update that does not give
\* is_default saves it as it was read.
Accept(r, op, t, flag) ==
  /\ saver[r].pc = "new"
  /\ CASE op = "create" -> flag \in {"plain", "default"}
       [] op = "update" -> target[t] # "none" /\ flag \in {"plain", "default", target[t]}
       [] op = "delete" -> target[t] # "none" /\ flag = "none"
  /\ saver' = [saver EXCEPT ![r] = [op |-> op, pc |-> "save", on |-> t, flag |-> flag]]
  /\ UNCHANGED <<target, wrote, met, doubled>>

\* The first statement. A name that is taken is a 409; an update of a row that
\* was deleted meanwhile inserts it again.
SaveTarget(r) ==
  LET q     == saver[r]
      taken == q.op = "create" /\ Seen(r, q.on) # "none"
      peers == {s \in Savers \ {r} : saver[s].pc \in {"clear", "commit"}
                                       /\ saver[s].flag = "default"}
  IN
  /\ q.pc = "save"
  /\ ~Locked(r, q.on)
  /\ Step(r, IF taken THEN "done" ELSE IF q.flag = "default" THEN "clear" ELSE "commit")
  /\ wrote' = IF taken THEN wrote ELSE [wrote EXCEPT ![r][q.on] = q.flag]
  /\ met' = IF taken \/ q.flag # "default" THEN met
            ELSE [s \in Savers |-> IF s = r THEN peers
                                   ELSE IF s \in peers THEN met[s] \cup {r} ELSE met[s]]
  /\ UNCHANGED <<target, doubled>>

BadOthers(r) == {}  \* the flag of the others is left to the next request

\* filter(owner, is_default=True).exclude(pk).
Others(r) == {t \in Targets \ {saver[r].on} : Seen(r, t) = "default"}

ClearOthers(r) ==
  /\ saver[r].pc = "clear"
  /\ \A t \in Others(r) : ~Locked(r, t)
  /\ wrote' = [wrote EXCEPT ![r] = [t \in Targets |-> IF t \in Others(r) THEN "plain" ELSE @[t]]]
  /\ Step(r, "commit")
  /\ UNCHANGED <<target, met, doubled>>

\* The end of transaction.atomic.
CommitTarget(r) ==
  /\ saver[r].pc = "commit"
  /\ target' = [t \in Targets |-> Seen(r, t)]
  /\ wrote' = [wrote EXCEPT ![r] = Nothing]
  /\ doubled' = IF saver[r].flag = "default" THEN met[r] # {} ELSE doubled
  /\ met' = [met EXCEPT ![r] = {}]
  /\ Step(r, "done")

\* The process dies or a statement fails; PostgreSQL ends one of two
\* transactions that wait for each other the same way.
AbortTarget(r) ==
  /\ saver[r].pc \in {"save", "clear", "commit"}
  /\ wrote' = [wrote EXCEPT ![r] = Nothing]
  /\ met' = [met EXCEPT ![r] = {}]
  /\ Step(r, "done")
  /\ UNCHANGED <<target, doubled>>

PushNext ==
  \E r \in Savers :
    \/ \E op \in {"create", "update", "delete"}, t \in Targets, flag \in Flags :
         Accept(r, op, t, flag)
    \/ SaveTarget(r) \/ ClearOthers(r) \/ CommitTarget(r) \/ AbortTarget(r)

PushSpec == PushInit /\ [][PushNext]_pushVars

-----------------------------------------------------------------------------
(* Properties                                                              *)

\* "Exactly one target per owner may carry is_default" (accounts/models.py:86):
\* never two, unless the last default was saved while another one was; the next
\* default that is saved alone puts that right.
OneDefault ==
  doubled \/ Cardinality({t \in Targets : target[t] = "default"}) <= 1

=============================================================================
