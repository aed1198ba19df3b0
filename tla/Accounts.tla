------------------------------ MODULE Accounts ------------------------------
(***************************************************************************)
(* One account, new or registered already (accounts/api.py, the admin part  *)
(* of ops/services.py): the links that are mailed, and the requests that   *)
(* read the row and save it. PATCH /users/me and PATCH /admin/users save   *)
(* every column as they read it; activation and password reset save only   *)
(* the columns they set.                                                   *)
(***************************************************************************)
CONSTANTS
  Requests,   \* requests for the account; each is served once
  Earlier     \* a request before those

ASSUME EarlierAssumption == Earlier \notin Requests

VARIABLES
  account,    \* the row, or NoAccount
  request,    \* where each request is, what it read, which columns it sets
  links,      \* links mailed and not expired yet
  intended,   \* history: each column as the last request that set it wanted it
  since,      \* history: the columns others have set since each request read
  undone      \* history: columns a save of the whole row put back

accountVars == <<account, request, links, intended, since, undone>>

\* live: is_active and is_verified, which the code sets and reads together but
\* for the administrator. The others are named for the request that set them.
Authors == Requests \cup {Earlier}
Row     == [live : BOOLEAN, password : Authors, zone : Authors]
Columns == {"live", "password", "zone"}
NoAccount == [live |-> FALSE]
Ops     == {"register", "me", "admin", "activate", "reset"}
Links   == {"activate", "reset"}  \* a magic link only signs in

AccountTypeOK ==
  /\ account \in Row \cup {NoAccount}
  /\ request \in [Requests -> [pc   : {"new", "save", "done"},
                               op   : Ops,
                               sets : SUBSET Columns,
                               live : BOOLEAN,
                               read : Row \cup {NoAccount}]]
  /\ links \in SUBSET Links
  /\ intended \in Row \cup {NoAccount}
  /\ since \in [Requests -> SUBSET Columns]
  /\ undone \in SUBSET Columns

Bare(label) == [pc |-> label, op |-> "register", sets |-> {}, live |-> FALSE,
                read |-> NoAccount]

AccountInit ==
  /\ account \in {NoAccount, [live |-> TRUE, password |-> Earlier, zone |-> Earlier]}
  /\ request = [r \in Requests |-> Bare("new")]
  /\ links = {}
  /\ intended = account
  /\ since = [r \in Requests |-> {}]
  /\ undone = {}

-----------------------------------------------------------------------------
HasRow(a) == a # NoAccount

Mail(link) == links' = links \cup {link}

Ends(r) == request' = [request EXCEPT ![r] = Bare("done")]

Read(r, op, sets, live) ==
  /\ request[r].pc = "new"
  /\ request' = [request EXCEPT ![r] = [pc |-> "save", op |-> op, sets |-> sets,
                                        live |-> live, read |-> account]]
  /\ since' = [since EXCEPT ![r] = {}]
  /\ UNCHANGED <<account, intended, undone>>

\* register: the look-up; create_user is the save. A pending account is only
\* mailed its link again, and nothing happens for a live one.
Register(r) ==
  /\ ~HasRow(account)
  /\ Read(r, "register", Columns, FALSE)
  /\ UNCHANGED links

RegisterAgain(r) ==
  /\ request[r].pc = "new"
  /\ HasRow(account) /\ ~account.live
  /\ Mail("activate")
  /\ Ends(r)
  /\ UNCHANGED <<account, intended, since, undone>>

\* forgot_password
AskLink ==
  /\ HasRow(account)
  /\ "reset" \notin links
  /\ Mail("reset")
  /\ UNCHANGED <<account, request, intended, since, undone>>

\* max_age of the signed token.
LinkExpires(link) ==
  /\ link \in links
  /\ links' = links \ {link}
  /\ UNCHANGED <<account, request, intended, since, undone>>

\* activate reads the row with a valid link; a live account stays as it is.
Activate(r) ==
  /\ "activate" \in links /\ ~account.live
  /\ Read(r, "activate", {"live"}, TRUE)
  /\ UNCHANGED links

ResetPassword(r) ==
  /\ "reset" \in links
  /\ Read(r, "reset", {"password"}, FALSE)
  /\ UNCHANGED links

\* users_me_patch: the row as the authentication of a live user read it.
PatchMe(r, column) ==
  /\ HasRow(account) /\ account.live
  /\ column \in {"password", "zone"}
  /\ Read(r, "me", {column}, FALSE)
  /\ UNCHANGED links

\* update_admin_user.
PatchUser(r, column, live) ==
  /\ HasRow(account)
  /\ column \in {"live", "zone"}
  /\ Read(r, "admin", {column}, live)
  /\ UNCHANGED links

-----------------------------------------------------------------------------
Value(r, column) == IF column = "live" THEN request[r].live ELSE r

BadPartial(op) == op = "reset"  \* activation calls save()

\* save(update_fields=...).
Partial(op) == op \in {"activate", "reset"}

\* What save() writes: the columns the request sets, and the rest as it read it
\* or, with update_fields, as it is.
Written(r, kept) ==
  [column \in Columns |-> IF column \in request[r].sets THEN Value(r, column) ELSE kept[column]]

SaveAccount(r) ==
  LET q     == request[r]
      whole == ~Partial(q.op)
  IN
  /\ q.pc = "save" /\ q.op # "register"
  /\ account' = Written(r, IF whole THEN q.read ELSE account)
  /\ intended' = [c \in Columns |-> IF c \in q.sets THEN Value(r, c) ELSE intended[c]]
  /\ undone' = (undone \cup (IF q.op \in {"me", "admin"} THEN since[r] ELSE {})) \ q.sets
  /\ since' = [s \in Requests |-> IF request[s].pc = "save" /\ s # r THEN since[s] \cup q.sets
                                   ELSE {}]
  /\ Ends(r)
  /\ UNCHANGED links

\* create_user, and the mail; the unique email stops a second one with a 500.
CreateAccount(r) ==
  /\ request[r].pc = "save" /\ request[r].op = "register"
  /\ Ends(r)
  /\ \/ /\ HasRow(account)
        /\ UNCHANGED <<account, links, intended>>
     \/ /\ ~HasRow(account)
        /\ account' = [live |-> FALSE, password |-> r, zone |-> r]
        /\ intended' = account'
        /\ Mail("activate")
  /\ UNCHANGED <<since, undone>>

\* The request ends with its process.
RequestDies(r) ==
  /\ request[r].pc = "save"
  /\ Ends(r)
  /\ since' = [since EXCEPT ![r] = {}]
  /\ UNCHANGED <<account, links, intended, undone>>

AccountNext ==
  \/ \E r \in Requests :
       \/ Register(r) \/ RegisterAgain(r) \/ CreateAccount(r)
       \/ Activate(r) \/ ResetPassword(r)
       \/ \E column \in Columns :
            PatchMe(r, column) \/ \E live \in BOOLEAN : PatchUser(r, column, live)
       \/ SaveAccount(r) \/ RequestDies(r)
  \/ AskLink
  \/ \E link \in Links : LinkExpires(link)

AccountSpec == AccountInit /\ [][AccountNext]_accountVars

-----------------------------------------------------------------------------
(* Properties                                                              *)

\* Every column has the value of the last request that set it, in whatever
\* order requests read and save: only a PATCH that saves the whole row undoes
\* what another has set since it read. No activation brings an old password
\* back, no reset disables an account.
ColumnsKept ==
  HasRow(account) => \A c \in Columns \ undone : account[c] = intended[c]

=============================================================================
