------------------------------ MODULE MCPeople ------------------------------
(***************************************************************************)
(* The parts of the application that are about its people and their        *)
(* workspaces, each explored on its own: they share no state, so a         *)
(* behaviour of one says all there is to say about its properties.         *)
(***************************************************************************)
EXTENDS Tenancy, Quotas, Services, Environments, Credentials, LlmConfig,
        ChatUploads, ChatFeed, MailCampaigns, TLC

CONSTANT Parts   \* the parts to explore
VARIABLE part    \* the one that this behaviour is about

Only(p) == part = p /\ part' = part

Init ==
    /\ part \in Parts
    /\ TenancyInit /\ QuotasInit /\ ServicesInit /\ EnvironmentsInit /\ CredentialsInit
    /\ LlmInit /\ UploadsInit /\ FeedInit /\ MailInit

accountVars == <<tenancyVars, quotaVars, credentialVars>>
placeVars == <<servicesVars, environmentVars, llmVars>>
talkVars == <<uploadVars, feedVars, mailVars>>

Next ==
    \/ /\ Only("tenancy") /\ TenancyNext
       /\ UNCHANGED <<quotaVars, credentialVars, placeVars, talkVars>>
    \/ /\ Only("quotas") /\ QuotasNext
       /\ UNCHANGED <<tenancyVars, credentialVars, placeVars, talkVars>>
    \/ /\ Only("credentials") /\ CredentialsNext
       /\ UNCHANGED <<tenancyVars, quotaVars, placeVars, talkVars>>
    \/ /\ Only("services") /\ ServicesNext
       /\ UNCHANGED <<environmentVars, llmVars, accountVars, talkVars>>
    \/ /\ Only("environments") /\ EnvironmentsNext
       /\ UNCHANGED <<servicesVars, llmVars, accountVars, talkVars>>
    \/ /\ Only("llm") /\ LlmNext
       /\ UNCHANGED <<servicesVars, environmentVars, accountVars, talkVars>>
    \/ /\ Only("uploads") /\ UploadsNext
       /\ UNCHANGED <<feedVars, mailVars, accountVars, placeVars>>
    \/ /\ Only("feed") /\ FeedNext
       /\ UNCHANGED <<uploadVars, mailVars, accountVars, placeVars>>
    \/ /\ Only("mail") /\ MailNext
       /\ UNCHANGED <<uploadVars, feedVars, accountVars, placeVars>>

PeopleSpec == Init /\ [][Next]_<<part, accountVars, placeVars, talkVars>>

PeopleSymmetry ==
    Permutations(Users) \union Permutations(Calls) \union Permutations(Invitations)

\* Once requests have crossed, one invitation; few environments, keys and
\* deployments together.
Small ==
    /\ crossed => Cardinality({i \in Invitations : invitation[i] # NoInvitation}) <= 1
    /\ Cardinality({e \in Envs : env[e] # "new"})
         + Cardinality({k \in Keys : key[k] # "new"})
         + Cardinality(UNION {repos[e] : e \in Envs})
         + Cardinality({None} \intersect UNION {deployed[e] : e \in Envs}) <= 3

\* One campaign and one letter without a row in a behaviour; what the user does
\* only where it makes a difference.
FewLetters ==
    LET Begun(c) == (\E u \in Recipients : mailbox[u][c] > 0) \/ \E s \in Sweeps : sweep[s].of = c
    IN  /\ unrecorded <= 1
        /\ Cardinality({c \in Campaigns : Begun(c)}) <= 1
        /\ onboarded # {} => ~Begun("help") /\ ~Begun("feedback")
        /\ loggedIn # {} => ~Begun("reminder") /\ ~Begun("help")

Bounded == Small /\ FewLetters

\* What no request does: let a cancelled invitation join, answer one twice, take a
\* workspace away with the account of one of its members, or report a deployment
\* with a key that is deleted.
PeopleStepsAreSound == MembershipStepsAreSound /\ DeletedKeyReportsNothing

\* The files of a question are there as long as its rows, and what is shown and
\* voted of its answer is what happened last.
TurnsAreSound == UploadsAreSound /\ FeedIsSound

\* The types of every part.
PeopleTypeOK ==
    /\ TenancyTypeOK /\ QuotasTypeOK /\ ServicesTypeOK /\ EnvironmentsTypeOK
    /\ CredentialsTypeOK /\ LlmTypeOK /\ UploadsTypeOK /\ FeedTypeOK /\ MailTypeOK
=============================================================================
