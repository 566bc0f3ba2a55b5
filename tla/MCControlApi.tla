----------------------------- MODULE MCControlApi -----------------------------
(***************************************************************************)
(* The instance of ControlApi that TLC checks.  One desk is asked for      *)
(* requests that reuse each other's ids, one for every kind of request to  *)
(* its policy, and one for snapshots while its queue changes.              *)
(***************************************************************************)
EXTENDS ControlApi

CONSTANTS Queue, Policy, Snapshots  \* the three desks

(* Requests to the desk that tell its routes apart, one per outcome.       *)
Act(t, target, flags) == [type |-> t, target |-> target, flags |-> flags]
FewActions == {Act("local", "t", {}), Act("local", "t", {"productionWrite"}),
               Act("local", "t", {"externalWrite", "readsSecretValues"}),
               Act("external", "t", {"external-source"})}

(* Requests to the policy: every type, target and pair of flags.           *)
Flags == {"externalWrite", "productionWrite", "customerVisible", "paidApi",
          "destructive", "readsSecretValues", "printsSecrets", "rawChatToMemory",
          "refersToSecret", "readOnly", "solisEvidence", "external-source",
          "execute", "image-without-caption"}
ManyActions ==
  {Act(t, g, {f1, f2}) : t \in {"local", "external", "solis"},
     g \in {"none", "vague", "t", "u"}, f1 \in Flags, f2 \in Flags}

Approval(ok, target, scope) == [approved |-> ok, target |-> target, scope |-> scope]
FewApprovals == {Approval(FALSE, "none", "")}
ManyApprovals ==
  {Approval(ok, g, s) : ok \in BOOLEAN, g \in {"none", "vague", "t", "u"},
     s \in {"", "local", "other", "new-request"}}

(* One value for each desk.                                                *)
ByDesk(q, p, s) ==
  [d \in {Queue, Policy, Snapshots} |->
     IF d = Queue THEN q ELSE IF d = Policy THEN p ELSE s]

MCAsked == ByDesk(
  {"baseline-check", "telegram-line-bridge-check", "external-adapter-smoke", "invalid-json"},
  {"invalid-json"}, {"telegram-line-bridge-check", "unknown"})
MCInboxIds == ByDesk({"baseline-check", "telegram-line-bridge-check"},
                     {"new-request"}, {"baseline-check"})
MCInboxActions == ByDesk(FewActions, ManyActions, FewActions)
MCApprovals == ByDesk(FewApprovals, ManyApprovals, FewApprovals)
MCWriters == ByDesk({}, {}, {"w1", "w2", "w3"})
MCMaxEvents == ByDesk(2, 2, 2)
MCMaxCalls == ByDesk(4, 2, 2)
MCMaxRestarts == ByDesk(1, 0, 1)
MCMaxSecond == ByDesk(1, 1, 2)

(* Two addresses of one route, and one of another.                         *)
MCPathname == [p \in {"list-1", "list-2", "home"} |-> IF p = "home" THEN "/" ELSE "/list"]

(* The parts that do not move have one first state.                        *)
MCInit ==
  /\ ApiInit
  /\ part = "workflow" \/ held = [k \in Slots |-> Create(Unbound, NoSource)]
  /\ part = "desk" \/ (desk = Queue /\ enabled = {})
  /\ part = "probe" \/ kind = "initialize"
  /\ part = "guard" \/ (url = [t \in Tabs |-> Elsewhere] /\ active = "t1" /\ gate)

MCSpec == MCInit /\ [][ApiNext]_apiVars
=============================================================================
