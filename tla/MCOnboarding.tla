---------------------------- MODULE MCOnboarding ----------------------------
(* Instances of Onboarding for TLC. *)
EXTENDS Onboarding, TLC

\* App 3 comes back after a purge and is kept for higher grades.
TopicChanges == {<<3, "active">>, <<3, "restricted">>}
NoChanges == {}

\* Enough to get a token.
LinkCommands == {Command(k, u) : k \in {"/start", "/agree"}, u \in Users}

\* Enough to link, subscribe and unsubscribe. App 1, which comes first where
\* topics are made, has subscriptions of the admin API only.
TopicCommands == {Command(k, u) : k \in {"/agree", "/apps"}, u \in Users}
    \union {Choice(k, u, 3) : k \in {"/subscribe", "/unsubscribe"}, u \in Users}

Symmetry == Permutations(Users) \union Permutations(Chats)
=============================================================================
