---------------------------- MODULE MCScanQueue -----------------------------
(* Small instances of ScanQueue: who asks for what, in which portal mode.  *)
EXTENDS ScanQueue, TLC

CONSTANTS p1, p2, p3, acme, beta, alice, bob

Ask(kind, trigger, analyze, by, scan, maySpend) ==
  [job |-> [kind |-> kind, trigger |-> trigger, analyze |-> analyze, by |-> by,
            scan |-> scan, est |-> NoEstimate], maySpend |-> maySpend]

(* A local portal: a person's full scan and a git hook. *)
LocalAsks == {Ask("scan", "manual", TRUE, alice, TRUE, TRUE),
              Ask("scan", "hook", FALSE, NoUser, TRUE, FALSE)}

(* A production portal: a described scan, a push, a forge event. *)
GitHubAsks == {Ask("sync", "manual", TRUE, alice, TRUE, TRUE),
               Ask("sync", "push", FALSE, NoUser, FALSE, FALSE),
               Ask("sync", "forge", FALSE, NoUser, TRUE, FALSE)}

(* The smallest mix of a described scan and an automatic sync. *)
ScanAndPush == {a \in GitHubAsks : a.job.trigger # "forge"}

(* Forge events.  The runner makes any request of a project never scanned  *)
(* its first run, on one not cloned the import: there the ask stands for   *)
(* the import's own, from which only the requester differs.                *)
ForgeAsks == {a \in GitHubAsks : a.job.trigger = "forge"}

OneOrg == [p \in Projects |-> acme]

(* Sound where no instance names a project or an org of one. *)
Symmetry == Permutations(Callers) \cup Permutations(Projects)
=============================================================================
