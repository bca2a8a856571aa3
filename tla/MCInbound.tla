----------------------------- MODULE MCInbound -----------------------------
(* One source of each kind, of which each behaviour uses MaxSources, and    *)
(* what their providers may send.                                           *)
EXTENDS Inbound, TLC

CONSTANTS hook, repo, chat, x1, x2, ann, bob, alpha, beta, p1, p2,
          post, early, opened, merge, label, odd, team, project, thanks

Sources == {hook, repo, chat}
SourceKinds == [s \in Source |-> IF s = hook THEN "WEBHOOK" ELSE IF s = repo THEN "GITHUB" ELSE "SLACK"]
Outside == {x1, x2}
Users == {ann, bob}
AdminUsers == {ann}
Teams == {alpha, beta}
Projects == {p1, p2}

Seats == {<<bob, alpha>>} \cup ({bob} \X Projects)

\* The name of one team begins with that of the other; projects share a name.
Names == [n \in Unit |-> IF n = beta THEN <<"alpha", "beta">> ELSE <<"alpha">>]

\* Who stands for which delivery, identity or project does not matter.
Alike == Permutations(Request) \cup Permutations(Identity) \cup Permutations(Project)

Bodies == {post, early, opened, merge, label, odd, team, project, thanks}

PullRequest(action, state, merged, at) ==
    [for |-> "GITHUB", sender |-> x1, author |-> x2, event |-> "pull_request", action |-> action, state |-> state,
     merged |-> merged, bound |-> TRUE, agrees |-> TRUE,
     times |-> [opened |-> 0, closed |-> IF state = "closed" THEN at ELSE Absent, merged |-> IF merged THEN at ELSE Absent]]

Ask(command, keyword, words) ==
    [for |-> "SLACK", sender |-> x1, author |-> IF command = "HELP" THEN Nobody ELSE x2, command |-> command,
     formed |-> TRUE, keyword |-> keyword, words |-> words]

Contents == [b \in Body |->
    CASE b = post    -> [for |-> "WEBHOOK", parsed |-> TRUE, canonical |-> TRUE, at |-> 0]
      [] b = early   -> [for |-> "WEBHOOK", parsed |-> TRUE, canonical |-> TRUE, at |-> 2]
      [] b = opened  -> PullRequest("opened", "open", FALSE, 0)
      [] b = merge   -> PullRequest("closed", "closed", TRUE, 2)
      [] b = label   -> PullRequest("labeled", "open", FALSE, 0)
      [] b = odd     -> PullRequest("opened", "closed", FALSE, 0)
      [] b = team    -> Ask("HELP", "team", <<"alpha", "beta", "please">>)
      [] b = project -> Ask("HELP", "project", <<"alpha", "please">>)
      [] b = thanks  -> Ask("THANKS", "none", <<"thanks">>)]
=============================================================================
