---------------------------- MODULE MCConnections ----------------------------
(***************************************************************************)
(* The parts of the application that connect a workspace to the outside,   *)
(* each explored on its own: they share no state.                          *)
(***************************************************************************)
EXTENDS GitHubApp, Integrations, AwsCredentials, SlackEvents, SlackTeams, SlackMasking,
        FiniteSetsExt, TLC

CONSTANT Parts   \* the parts to explore
VARIABLE part    \* the one that this behaviour is about

Only(p) == part = p /\ part' = part

Init ==
    /\ part \in Parts
    /\ GitHubInit /\ IntegrationsInit /\ AwsInit
    /\ SlackInit /\ SlackTeamsInit /\ SlackMaskingInit

providerVars == <<githubVars, integrationVars, awsVars>>
chatVars == <<slackVars, teamVars, maskVars>>

Next ==
    \/ /\ Only("github") /\ GitHubNext
       /\ UNCHANGED <<integrationVars, awsVars, chatVars>>
    \/ /\ Only("integrations") /\ IntegrationsNext
       /\ UNCHANGED <<githubVars, awsVars, chatVars>>
    \/ /\ Only("aws") /\ AwsNext
       /\ UNCHANGED <<githubVars, integrationVars, chatVars>>
    \/ /\ Only("slack") /\ SlackNext
       /\ UNCHANGED <<providerVars, teamVars, maskVars>>
    \/ /\ Only("teams") /\ SlackTeamsNext
       /\ UNCHANGED <<providerVars, slackVars, maskVars>>
    \/ /\ Only("masking") /\ SlackMaskingNext
       /\ UNCHANGED <<providerVars, slackVars, teamVars>>

ConnectionsSpec == Init /\ [][Next]_<<part, providerVars, chatVars>>

ConnectionsSymmetry ==
    Permutations(Calls) \union Permutations(Rows) \union Permutations(Planes)

\* Few installations with calls about them, one webhook at a time once they have
\* crossed; few rows; few deliveries.
Few ==
    /\ Cardinality({i \in Installations : install[i] # "none"})
         + Cardinality({d \in Calls : deed[d].step # "idle"}) <= 3
    /\ mixed => /\ Cardinality({i \in Installations : hooks[i] # <<>>}) <= 1
                /\ \A i \in Installations : Len(hooks[i]) <= 1
    /\ Cardinality({r \in Rows : control[r] # None})
         + Cardinality({r \in Rows : config[r] # None}) <= 4
    /\ MapThenSumSet(LAMBDA e : sent[e], Posts) <= (IF restarted THEN 3 ELSE 6)

\* Two addresses and a number.
SomePersonal == {[kind |-> "personal", of |-> "email", n |-> i] : i \in 1..2}
                  \union {[kind |-> "personal", of |-> "ip", n |-> 1]}

\* A process does not replace a credential it has stored itself before that is due,
\* and a Slack team goes to another workspace only by being disconnected.
ConnectionStepsAreSound == NoRedundantRenewal /\ TeamStays

\* What a workspace on Slack can rely on: its messages are handled once and not
\* forgotten, and its installation and its control plane row match.
SlackIsSound == DeliveriesAreSound /\ PlanesMatch

\* The types of every part.
ConnectionsTypeOK ==
    /\ GitHubTypeOK /\ IntegrationsTypeOK /\ AwsTypeOK
    /\ SlackTypeOK /\ SlackTeamsTypeOK /\ SlackMaskingTypeOK
=============================================================================
