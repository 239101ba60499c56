---------------------------- MODULE MCGitHubSync ----------------------------
EXTENDS GitHubSync

(* A scanned commit, a later one, and one that tracks .whygraph. *)
MCCommits == {"a", "b", "t"}
=============================================================================
