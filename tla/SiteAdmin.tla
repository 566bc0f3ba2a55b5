----------------------------- MODULE SiteAdmin ------------------------------
(***************************************************************************)
(* The administration of the public website: the OAuth callback and the    *)
(* session cookie (oauth.ts, sdk.ts), the context and the admin check of a *)
(* request (context.ts, trpc.ts), the rows of users (db.ts) and the        *)
(* article an administrator creates, publishes, withdraws and deletes      *)
(* (routers.ts).                                                           *)
(*                                                                         *)
(* A request looks its user up, syncs the row from OAuth when there is     *)
(* none, touches the row and only then runs its procedure with the role it *)
(* read first.  Meanwhile an operator grants, revokes and removes rows in  *)
(* the database, and other requests run.                                   *)
(***************************************************************************)
EXTENDS Naturals

CONSTANTS
  People,       \* everyone with an account at the OAuth server
  Owner,        \* OWNER_OPEN_ID
  MaxRequests,  \* procedures called in a run
  MaxEdits,     \* changes an operator makes to rows of users
  MaxFaults,    \* database or OAuth calls that fail
  Gone,         \* an article that was deleted
  None

VARIABLES
  nameless,  \* accounts without a name: they stay so
  roles,     \* the rows of users: no row, or its role
  cookie,    \* the session token each browser holds
  request,   \* the request each browser waits for
  post,      \* the article: none yet, its flags, or gone
  granted,   \* whom the operator made administrator last, for the properties
  sent,      \* requests so far; also the clock that publishedAt reads
  edits, faults

vars == <<nameless, roles, cookie, request, post, granted, sent, edits, faults>>

Operations == {"draft", "release", "publish", "withdraw", "delete"}
Roles == {"user", "admin"}
Steps == {"lookup", "sync", "reread", "touch", "run", "write"}
Requests == [step : Steps, op : Operations, role : Roles \cup {None},
             first : BOOLEAN, held : BOOLEAN]
Articles == [published : BOOLEAN, at : 1..MaxRequests \cup {None}]

(* What the constants must satisfy: None and Gone are no values in use. *)
SiteAdminAssumption ==
  /\ Owner \in People
  /\ MaxRequests \in Nat /\ MaxEdits \in Nat /\ MaxFaults \in Nat
  /\ None \notin Roles /\ None \notin 1..MaxRequests /\ None \notin {"named", "nameless", Gone}
  /\ None \notin Requests /\ None \notin Articles
  /\ Gone \notin Articles

Init ==
  /\ nameless \in SUBSET People
  /\ roles = [p \in People |-> None] /\ granted = [p \in People |-> FALSE]
  /\ cookie = [p \in People |-> None] /\ request = [p \in People |-> None]
  /\ post = None /\ sent = 0 /\ edits = 0 /\ faults = 0

Fault == faults < MaxFaults /\ faults' = faults + 1

\* Everyone who is an administrator now was one during the running request.
Witness(rows, requests) ==
  [p \in People |->
    IF requests[p] # None /\ rows[p] = "admin"
    THEN [requests[p] EXCEPT !.held = TRUE] ELSE requests[p]]

-----------------------------------------------------------------------------
(***************************************************************************)
(* Rows and sessions                                                       *)
(***************************************************************************)

\* upsertUser without a role: the owner's row becomes an administrator's, a new
\* row a user's, and a row that is there keeps its role.
Upserted(p) ==
  [roles EXCEPT ![p] = IF p = Owner THEN "admin" ELSE IF @ = None THEN "user" ELSE @]

\* The OAuth callback writes the row and hands out a token that carries the
\* account's name; either write may fail and leave the browser as it was.
SignIn(p) ==
  /\ cookie[p] = None
  /\ \/ /\ roles' = Upserted(p) /\ UNCHANGED faults
        /\ cookie' = [cookie EXCEPT ![p] = IF p \in nameless THEN "nameless" ELSE "named"]
     \/ Fault /\ roles' \in {roles, Upserted(p)} /\ UNCHANGED cookie
  /\ request' = Witness(roles', request)
  /\ UNCHANGED <<nameless, post, granted, sent, edits>>

\* auth.logout clears the cookie; nothing else knows of the session.
Logout(p) ==
  /\ cookie[p] # None
  /\ cookie' = [cookie EXCEPT ![p] = None]
  /\ UNCHANGED <<nameless, roles, request, post, granted, sent, edits, faults>>

\* What an operator does to the rows: there is no procedure for it.
EditRow(p) ==
  /\ edits < MaxEdits /\ edits' = edits + 1
  /\ roles[p] # None
  /\ \E row \in {"user", "admin", None} \ {roles[p]} :
       /\ roles' = [roles EXCEPT ![p] = row]
       /\ granted' = [granted EXCEPT ![p] = (row = "admin")]
  /\ request' = Witness(roles', request)
  /\ UNCHANGED <<nameless, cookie, post, sent, faults>>

-----------------------------------------------------------------------------
(***************************************************************************)
(* A request                                                               *)
(***************************************************************************)

\* verifySession takes only a token that names its holder.
Verified(p) == cookie[p] = "named"

Begin(p, op) ==
  /\ Verified(p) /\ request[p] = None /\ sent < MaxRequests
  /\ (op \in {"draft", "release"}) = (post = None)
  /\ post # Gone
  /\ sent' = sent + 1
  /\ request' = [request EXCEPT ![p] =
       [step |-> "lookup", op |-> op, role |-> None, first |-> FALSE,
        held |-> roles[p] = "admin"]]
  /\ UNCHANGED <<nameless, roles, cookie, post, granted, edits, faults>>

\* A failing authentication leaves the context without a user, and the admin
\* check refuses.
Refused(p) == request' = [request EXCEPT ![p] = None]

Asked(p, step) == request[p] # None /\ request[p].step = step

\* getUserByOpenId, before and after the sync.
Lookup(p) ==
  /\ Asked(p, "lookup") \/ Asked(p, "reread")
  /\ \/ /\ request' = [request EXCEPT ![p] =
             IF roles[p] # None THEN [@ EXCEPT !.step = "touch", !.role = roles[p]]
             ELSE IF @.step = "lookup" THEN [@ EXCEPT !.step = "sync"] ELSE None]
        /\ UNCHANGED faults
     \/ Fault /\ Refused(p)
  /\ UNCHANGED <<nameless, roles, cookie, post, granted, sent, edits>>

\* No row: the OAuth server is asked, the row is written and read again.  An
\* operator may remove it between the two.
Sync(p) ==
  /\ Asked(p, "sync")
  /\ \/ /\ roles' = Upserted(p) /\ UNCHANGED faults
        /\ request' = Witness(roles', [request EXCEPT ![p].step = "reread"])
     \/ /\ Fault /\ roles' \in {roles, Upserted(p)}
        /\ request' = Witness(roles', [request EXCEPT ![p] = None])
  /\ UNCHANGED <<nameless, cookie, post, granted, sent, edits>>

\* Mutant: the row that was read is written back with the new time.
TouchWritesBack(p) ==
  /\ Asked(p, "touch")
  /\ roles' = [roles EXCEPT ![p] = request[p].role]
  /\ request' = Witness(roles', [request EXCEPT ![p].step = "run"])
  /\ UNCHANGED <<nameless, cookie, post, granted, sent, edits, faults>>

\* The second upsert writes lastSignedIn, and the row when it is gone.
Touch(p) ==
  /\ Asked(p, "touch")
  /\ \/ /\ roles' = Upserted(p) /\ UNCHANGED faults
        /\ request' = Witness(roles', [request EXCEPT ![p].step = "run"])
     \/ /\ Fault /\ roles' \in {roles, Upserted(p)}
        /\ request' = Witness(roles', [request EXCEPT ![p] = None])
  /\ UNCHANGED <<nameless, cookie, post, granted, sent, edits>>

\* adminProcedure: the role read by the lookup decides.
Admitted(p) == request[p].role = "admin"

\* A procedure that is not admitted, or whose statement fails, ends.
Refuse(p) ==
  /\ Asked(p, "run") \/ Asked(p, "write")
  /\ IF request[p].step = "run" /\ ~Admitted(p) THEN UNCHANGED faults ELSE Fault
  /\ Refused(p)
  /\ UNCHANGED <<nameless, roles, cookie, post, granted, sent, edits>>

-----------------------------------------------------------------------------
(***************************************************************************)
(* The article                                                             *)
(***************************************************************************)

Running(p, step, ops) ==
  /\ Asked(p, step) /\ request[p].op \in ops
  /\ step = "run" => Admitted(p)

\* blog.create: the slug is unique, so a second insert fails.
CreateBlogPost(p) ==
  /\ Running(p, "run", {"draft", "release"})
  /\ post' = IF post # None THEN post
             ELSE LET out == request[p].op = "release"
                  IN [published |-> out, at |-> IF out THEN sent ELSE None]
  /\ Refused(p)
  /\ UNCHANGED <<nameless, roles, cookie, granted, sent, edits, faults>>

\* blog.update to published reads the article to see whether it has a date.
ReadBlogPost(p) ==
  /\ Running(p, "run", {"publish"})
  /\ request' = [request EXCEPT
       ![p].step = "write", ![p].first = (post # Gone /\ post.at = None)]
  /\ UNCHANGED <<nameless, roles, cookie, post, granted, sent, edits, faults>>

\* updateBlogPost writes the fields it was given, the date when none was read.
UpdateBlogPost(p) ==
  /\ Running(p, "write", {"publish"}) \/ Running(p, "run", {"withdraw"})
  /\ post' = IF post = Gone THEN post
             ELSE [published |-> request[p].op = "publish",
                   at |-> IF request[p].first THEN sent ELSE post.at]
  /\ Refused(p)
  /\ UNCHANGED <<nameless, roles, cookie, granted, sent, edits, faults>>

\* blog.delete; ids are never used again.
DeleteBlogPost(p) ==
  /\ Running(p, "run", {"delete"})
  /\ post' = Gone /\ Refused(p)
  /\ UNCHANGED <<nameless, roles, cookie, granted, sent, edits, faults>>

Procedure(p) ==
  CreateBlogPost(p) \/ ReadBlogPost(p) \/ UpdateBlogPost(p) \/ DeleteBlogPost(p)

Next == \E p \in People :
  \/ SignIn(p) \/ Logout(p) \/ EditRow(p)
  \/ \E op \in Operations : Begin(p, op)
  \/ Lookup(p) \/ Sync(p) \/ Touch(p) \/ Refuse(p) \/ Procedure(p)

Spec == Init /\ [][Next]_vars

-----------------------------------------------------------------------------
(***************************************************************************)
(* Properties                                                              *)
(***************************************************************************)

\* Rows, tokens, requests and the article have the shapes the code gives them,
\* and a request that runs has a user.
TypeOK ==
  /\ nameless \subseteq People
  /\ roles \in [People -> Roles \cup {None}]
  /\ cookie \in [People -> {"named", "nameless", None}]
  /\ request \in [People -> Requests \cup {None}]
  /\ \A p \in People : request[p] # None /\ request[p].step \in {"touch", "run", "write"}
       => request[p].role # None
  /\ post \in {None, Gone} \/ post \in Articles
  /\ granted \in [People -> BOOLEAN]
  /\ sent \in 0..MaxRequests /\ edits \in 0..MaxEdits /\ faults \in 0..MaxFaults

\* Nobody but the owner is an administrator without the operator's word: no
\* request that was under way brings back a role that was taken meanwhile.
AdminOnlyByGrant == \A p \in People \ {Owner} : roles[p] = "admin" => granted[p]

\* An article changes only by a request whose sender was an administrator at
\* some time during it: what was revoked before a request is of no use to it.
ChangedByAdministrators ==
  [][post' # post => \E p \in People :
       request[p] # None /\ request'[p] = None /\ request[p].held]_vars

\* A published article has the date its page shows, whatever two administrators
\* do to it at once.
PublishedHasDate == post \notin {None, Gone} /\ post.published => post.at # None

\* Rights and articles are what the operator and the administrators made them.
RightsGranted == TypeOK /\ AdminOnlyByGrant /\ PublishedHasDate

\* What the handler says of the date: it is set when the article is first
\* published.  Two first publications at once set it twice.
DateIsOfFirstPublication ==
  [][post \notin {None, Gone} /\ post.at # None /\ post' # Gone
       => post'.at = post.at]_vars
=============================================================================
