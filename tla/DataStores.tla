----------------------------- MODULE DataStores -----------------------------
(***************************************************************************)
(* What lives in a database, composed: stage leases in Postgres, the lead  *)
(* API of the Rust web service, the lead forms of the website, its         *)
(* administration, and the knowledge sync at the edge.  They share no      *)
(* variable, so a behaviour lets one part move, chosen when it starts: it  *)
(* reaches no state of a part that the part does not reach alone.          *)
(***************************************************************************)
EXTENDS PostgresLeases

CONSTANTS
  Leads, Callers, MaxApiFaults,
  Visitors, Partners, MaxTries, MaxSiteFaults,
  People, Owner, Gone, MaxRequests, MaxGrants, MaxAdminFaults,
  Nodes, NotePaths, Limit, MaxAtWork, MaxEdits, MaxSyncFaults

VARIABLES
  part,
  status, followUps, create, patch, leadLock, apiFaults,
  configured, up, leads, audits, queue, notified, call, form, tries, told, siteFaults,
  nameless, roles, cookie, request, post, granted, sent, grants, adminFaults,
  vault, since, rows, index, work, noon, torn, edits, syncFaults

serviceVars == <<status, followUps, create, patch, leadLock, apiFaults>>
siteVars ==
  <<configured, up, leads, audits, queue, notified, call, form, tries, told, siteFaults>>
adminVars ==
  <<nameless, roles, cookie, request, post, granted, sent, grants, adminFaults>>
brainVars == <<vault, since, rows, index, work, noon, torn, edits, syncFaults>>
dataVars == <<part, vars, serviceVars, siteVars, adminVars, brainVars>>

-----------------------------------------------------------------------------
Service == INSTANCE LeadService WITH
  Agents <- Callers, MaxFaults <- MaxApiFaults,
  row <- status, work <- followUps, request <- patch, lock <- leadLock,
  faults <- apiFaults

Site == INSTANCE LeadSite WITH
  MaxFaults <- MaxSiteFaults, faults <- siteFaults

Admin == INSTANCE SiteAdmin WITH
  MaxEdits <- MaxGrants, MaxFaults <- MaxAdminFaults,
  edits <- grants, faults <- adminFaults

Brain == INSTANCE BrainSync WITH
  Paths <- NotePaths, MaxFaults <- MaxSyncFaults,
  clock <- noon, faults <- syncFaults

ASSUME DataStoresAssumption ==
  /\ Service!LeadServiceAssumption
  /\ Site!LeadSiteAssumption
  /\ Admin!SiteAdminAssumption
  /\ Brain!BrainSyncAssumption

-----------------------------------------------------------------------------
Parts == {"leases", "service", "site", "admin", "brain"}

(* Every part starts, and one of them moves.                               *)
DataInit ==
  /\ part \in Parts
  /\ Init /\ Service!Init /\ Site!Init /\ Admin!Init /\ Brain!Init

DataNext ==
  /\ UNCHANGED part
  /\ \/ /\ part = "leases" /\ Next
        /\ UNCHANGED <<serviceVars, siteVars, adminVars, brainVars>>
     \/ /\ part = "service" /\ Service!Next
        /\ UNCHANGED <<vars, siteVars, adminVars, brainVars>>
     \/ /\ part = "site" /\ Site!Next
        /\ UNCHANGED <<vars, serviceVars, adminVars, brainVars>>
     \/ /\ part = "admin" /\ Admin!Next
        /\ UNCHANGED <<vars, serviceVars, siteVars, brainVars>>
     \/ /\ part = "brain" /\ Brain!Next
        /\ UNCHANGED <<vars, serviceVars, siteVars, adminVars>>

DataSpec == DataInit /\ [][DataNext]_dataVars

-----------------------------------------------------------------------------
(* The properties of each part, with the types of its variables; the       *)
(* modules of the parts say what code each conjunct is about.  Those of    *)
(* the leases keep their names.                                            *)

(* What a client was told of its lead is so: a lead created is stored, one *)
(* of two agents that ask for one status gets it, a visitor who is thanked *)
(* has a lead somebody will read, in the database or in the queue and not  *)
(* in both (create_lead, update_lead_status, lead.submit).                 *)
LeadsKept == Service!LeadsKept /\ Site!LeadsKept

(* Nobody but the owner is an administrator ungranted, and a published     *)
(* article has a date, whatever comes between the awaits of a request      *)
(* (upsertUser, blog.update).                                              *)
RightsGranted == Admin!RightsGranted

(* upsertNote: but for the path of an upsert that began over another one   *)
(* of it or broke off, until the next upsert, the index has one entry for  *)
(* each note, of the revision its row holds, and none for one deleted.     *)
SearchMended == Brain!TypeOK /\ Brain!SearchMended

(* What a step may do to a row: an active lease expires only overdue, a    *)
(* lead's status only moves on, an article changes by administrators'      *)
(* requests, a note becomes older only by an upsert whose check read       *)
(* another row (acquire_lease, update_lead_status, adminProcedure,         *)
(* upsertNote).                                                            *)
RowsChangeAsAllowed ==
  /\ OnlyOverdueExpire
  /\ Service!StatusMovesOn
  /\ Admin!ChangedByAdministrators
  /\ Brain!OlderOnlyIfStale
=============================================================================
