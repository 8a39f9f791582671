----------------------------- MODULE Credentials -----------------------------
(***************************************************************************)
(* Signing up, in and out with one e-mail address: passwords, the links    *)
(* that are mailed to verify it or to reset the password, sessions         *)
(* (refresh tokens), and signing in with Google or GitHub.                 *)
(***************************************************************************)
EXTENDS Platform

CONSTANTS
    Accounts,    \* the accounts of the address, one after the other (a bound)
    Links,       \* the links that may be mailed (a bound)
    Sessions,    \* the sessions that may exist at the same time (a bound)
    MostResets   \* how often a password is set at most (a bound)

VARIABLES
    user,      \* whether an account exists
    verified,  \* User.is_verified
    password,  \* User.password_hash: how often it was set, 0 for never
    link,      \* email_verifications
    login,     \* refresh_tokens: whose each is, and the password of its sign-in
    visit,     \* what a request is doing
    uses,      \* history: how often a link has changed a password
    met,       \* history: two requests were served at the same time
    halted     \* history: a reset has stopped between its two commits

credentialVars == <<user, verified, password, link, login, visit, uses, met,
                    halted>>

Kinds == {"verify", "reset"}
Link == [state: {"open", "used"}, kind: Kinds, of: Accounts]
Session == [of: Accounts, password: 0..MostResets]

ASSUME CredentialsAssumption ==
    /\ None \notin Accounts \union Links \union Sessions \union Link
    /\ MostResets \in Nat \ {0}
    /\ IsFiniteSet(Links)

Visit == [step: {"idle", "create", "clear", "mail", "verify", "reset", "ending",
                 "oauth", "session"},
          of: Accounts \union {None}, kind: Kinds, link: Links \union {None},
          password: 0..MostResets, written: BOOLEAN]
NoVisit == [step |-> "idle", of |-> None, kind |-> "verify", link |-> None,
            password |-> 0, written |-> FALSE]

CredentialsTypeOK ==
    /\ user \in [Accounts -> Lives]
    /\ verified \in [Accounts -> BOOLEAN]
    /\ password \in [Accounts -> 0..MostResets]
    /\ link \in [Links -> Link \union {None}]
    /\ login \in [Sessions -> Session \union {None}]
    /\ visit \in [Calls -> Visit]
    /\ uses \in [Links -> Nat]
    /\ met \in BOOLEAN /\ halted \in BOOLEAN

CredentialsInit ==
    /\ user = [a \in Accounts |-> "new"]
    /\ verified = [a \in Accounts |-> FALSE]
    /\ password = [a \in Accounts |-> 0]
    /\ link = [l \in Links |-> None]
    /\ login = [s \in Sessions |-> None]
    /\ visit = [c \in Calls |-> NoVisit]
    /\ uses = [l \in Links |-> 0]
    /\ met = FALSE /\ halted = FALSE

Registered == {a \in Accounts : user[a] = "live"}
Open(a, kind) ==
    {l \in Links : link[l] # None /\ link[l].state = "open"
                                  /\ link[l].kind = kind /\ link[l].of = a}

rows == <<user, verified, password, link, login, uses, halted>>

Visits(c, q) ==
    /\ visit[c].step = "idle"
    /\ visit' = [visit EXCEPT ![c] = q]
    /\ met' = (met \/ \E d \in Calls \ {c} : visit[d].step # "idle")
    /\ UNCHANGED rows

GoesOn(c, q) == visit' = [visit EXCEPT ![c] = q] /\ UNCHANGED met
Steps(c, step) == GoesOn(c, [visit[c] EXCEPT !.step = step])
Leaves(c) == GoesOn(c, NoVisit)

\* Mail that cannot be sent, an error, a process that dies.
VisitLost(c) ==
    /\ visit[c].step # "idle"
    /\ halted' = (halted \/ (visit[c].step = "ending" /\ visit[c].written))
    /\ Leaves(c)
    /\ UNCHANGED <<user, verified, password, link, login, uses>>

-----------------------------------------------------------------------------
(* Accounts and the links mailed to them. *)

AskSignup(c) ==
    /\ Registered = {}
    /\ Visits(c, [NoVisit EXCEPT !.step = "create"])

\* The address is unique: whoever comes second fails.
Signup(c) ==
    /\ visit[c].step = "create"
    /\ Registered = {}
    /\ \E a \in Accounts :
          /\ user[a] = "new"
          /\ user' = [user EXCEPT ![a] = "live"]
          /\ password' = [password EXCEPT ![a] = 1]
          /\ GoesOn(c, [visit[c] EXCEPT !.step = "mail", !.of = a])
    /\ UNCHANGED <<verified, link, login, uses, halted>>

\* resend_verification_email, forgot_password, and the login of somebody who
\* has not verified the address.
AskLink(c, kind) ==
    \E a \in Registered :
        /\ kind = "verify" => ~verified[a]
        /\ Visits(c, [NoVisit EXCEPT !.step = "clear", !.of = a, !.kind = kind])

\* What was mailed before and is not used is deleted.
InvalidateUserTokens(c) ==
    LET q == visit[c] IN
    /\ visit[c].step = "clear"
    /\ link' = [l \in Links |-> IF l \in Open(q.of, q.kind) THEN None ELSE link[l]]
    /\ uses' = [l \in Links |-> IF l \in Open(q.of, q.kind) THEN 0 ELSE uses[l]]
    /\ Steps(c, "mail")
    /\ UNCHANGED <<user, verified, password, login, halted>>

CreateVerificationToken(c) ==
    LET q == visit[c] IN
    /\ visit[c].step = "mail"
    /\ user[q.of] = "live"
    /\ \E l \in Links :
          /\ link[l] = None
          /\ \A d \in Calls : visit[d].link # l
          /\ link' = [link EXCEPT ![l] =
                         [state |-> "open", kind |-> q.kind, of |-> q.of]]
    /\ Leaves(c)
    /\ UNCHANGED <<user, verified, password, login, uses, halted>>

\* A link is looked up: it must be there and not used.
AskVerify(c) ==
    \E a \in Accounts : \E l \in Open(a, "verify") :
        Visits(c, [NoVisit EXCEPT !.step = "verify", !.of = a, !.link = l])

AskReset(c) ==
    \E a \in Accounts : \E l \in Open(a, "reset") :
        Visits(c, [NoVisit EXCEPT !.step = "reset", !.of = a, !.link = l])

\* It is looked up again to be marked, and may be gone or used by then.
StillOpen(q) == link[q.link] # None /\ link[q.link].state = "open"
MarkTokenVerified(q) ==
    link' = IF StillOpen(q) THEN [link EXCEPT ![q.link].state = "used"] ELSE link

VerifyEmail(c) ==
    LET q == visit[c] IN
    /\ visit[c].step = "verify"
    /\ user[q.of] = "live"
    /\ verified' = [verified EXCEPT ![q.of] = TRUE]
    /\ MarkTokenVerified(q)
    /\ Leaves(c)
    /\ UNCHANGED <<user, password, login, uses, halted>>

NewPassword(q) ==
    /\ password[q.of] < MostResets
    /\ password' = [password EXCEPT ![q.of] = @ + 1]
    /\ uses' = [uses EXCEPT ![q.link] = @ + 1]

\* Marking the link commits the password with it; without a link to mark
\* the password is still to be committed.
ResetPassword(c) ==
    LET q == visit[c] IN
    /\ visit[c].step = "reset"
    /\ user[q.of] = "live"
    /\ MarkTokenVerified(q)
    /\ \/ StillOpen(q) /\ NewPassword(q)
       \/ ~StillOpen(q) /\ UNCHANGED <<password, uses>>
    /\ GoesOn(c, [q EXCEPT !.step = "ending", !.written = StillOpen(q)])
    /\ UNCHANGED <<user, verified, login, halted>>

SessionsOf(a) == {s \in Sessions : login[s] # None /\ login[s].of = a}
Drop(ss) == login' = [s \in Sessions |-> IF s \in ss THEN None ELSE login[s]]

EndSessionsUncommitted(c) ==
    /\ visit[c].step = "ending"
    /\ IF visit[c].written THEN UNCHANGED <<password, uses>> ELSE NewPassword(visit[c])
    /\ Leaves(c)
    /\ UNCHANGED <<user, verified, link, login, halted>>

\* The second commit of a reset.
EndSessions(c) ==
    LET q == visit[c] IN
    /\ visit[c].step = "ending"
    /\ IF q.written THEN UNCHANGED <<password, uses>> ELSE NewPassword(q)
    /\ Drop(SessionsOf(q.of))
    /\ Leaves(c)
    /\ UNCHANGED <<user, verified, link, halted>>

-----------------------------------------------------------------------------
(* Sessions. *)

AskLogin(c) ==
    \E a \in Registered :
        /\ password[a] > 0 /\ verified[a]
        /\ Visits(c, [NoVisit EXCEPT !.step = "session", !.of = a,
                                     !.password = password[a]])

\* Google or GitHub vouches for the address; is there an account?
AskOAuth(c) ==
    \/ /\ Registered = {}
       /\ Visits(c, [NoVisit EXCEPT !.step = "oauth"])
    \/ \E a \in Registered :
          Visits(c, [NoVisit EXCEPT !.of = a, !.password = password[a],
                         !.step = IF verified[a] THEN "session" ELSE "oauth"])

\* The account is created, or verified, and signed in.
CreateOrGetUser(c) ==
    LET q == visit[c] IN
    /\ visit[c].step = "oauth"
    /\ \/ /\ q.of = None /\ Registered = {}
          /\ \E a \in Accounts :
                /\ user[a] = "new"
                /\ user' = [user EXCEPT ![a] = "live"]
                /\ verified' = [verified EXCEPT ![a] = TRUE]
                /\ GoesOn(c, [q EXCEPT !.step = "session", !.of = a])
       \/ /\ q.of \in Registered
          /\ verified' = [verified EXCEPT ![q.of] = TRUE]
          /\ Steps(c, "session")
          /\ UNCHANGED user
    /\ UNCHANGED <<password, link, login, uses, halted>>

\* Nothing ties a refresh token to an account that still exists.
CreateRefreshToken(c) ==
    LET q == visit[c] IN
    /\ visit[c].step = "session"
    /\ \E s \in Sessions :
          /\ login[s] = None
          /\ login' = [login EXCEPT ![s] = [of |-> q.of, password |-> q.password]]
    /\ Leaves(c)
    /\ UNCHANGED <<user, verified, password, link, uses, halted>>

\* Requests of one step.
Meets == met' = (met \/ \E c \in Calls : visit[c].step # "idle")

\* Every session of whoever signs out ends; one that is too old ends when it is used.
Logout(a) ==
    /\ a \in Registered
    /\ Drop(SessionsOf(a))
    /\ Meets
    /\ UNCHANGED <<user, verified, password, link, visit, uses, halted>>

RefreshAccessToken(s) ==
    /\ login[s] # None
    /\ Drop({s})
    /\ UNCHANGED <<user, verified, password, link, visit, uses, met, halted>>

\* The deletion of the account waits for a reset that has written it.
CloseAccount(a) ==
    /\ a \in Registered
    /\ \A c \in Calls : ~(visit[c].step = "ending" /\ visit[c].of = a
                                                   /\ ~visit[c].written)
    /\ user' = [user EXCEPT ![a] = "gone"]
    /\ link' = [l \in Links |->
           IF link[l] # None /\ link[l].of = a THEN None ELSE link[l]]
    /\ uses' = [l \in Links |-> IF link'[l] = None THEN 0 ELSE uses[l]]
    /\ Drop(SessionsOf(a))
    /\ Meets
    /\ UNCHANGED <<verified, password, visit, halted>>

-----------------------------------------------------------------------------
LinkStep(c) ==
    \/ AskSignup(c) \/ Signup(c)
    \/ \E kind \in Kinds : AskLink(c, kind)
    \/ InvalidateUserTokens(c) \/ CreateVerificationToken(c)
    \/ AskVerify(c) \/ VerifyEmail(c)
    \/ AskReset(c) \/ ResetPassword(c) \/ EndSessions(c)

SessionStep(c) ==
    \/ AskLogin(c) \/ AskOAuth(c) \/ CreateOrGetUser(c) \/ CreateRefreshToken(c)
    \/ VisitLost(c)

CredentialsNext ==
    \/ \E c \in Calls : LinkStep(c) \/ SessionStep(c)
    \/ \E a \in Accounts : Logout(a) \/ CloseAccount(a)
    \/ \E s \in Sessions : RefreshAccessToken(s)

CredentialsSpec == CredentialsInit /\ [][CredentialsNext]_credentialVars

-----------------------------------------------------------------------------
\* One request after the other, a reset has ended every session that was signed in
\* with an older password, unless it stops between its commits: "Invalidate all
\* refresh tokens for security".
SessionsOfThisPassword ==
    /\ ~met /\ ~halted
    /\ \A c \in Calls : visit[c].step # "ending"
    => \A s \in Sessions : login[s] # None =>
            login[s].password = password[login[s].of]

\* One after the other, a link changes the password once, and only the last one
\* that was mailed works.
LinksWorkOnce ==
    ~met => \A a \in Accounts, kind \in Kinds :
        /\ Cardinality(Open(a, kind)) <= 1
        /\ \A l \in Links : uses[l] <= 1

\* Whatever crosses, only somebody who has verified the address has a session;
\* a link that resets a password verifies nothing.
SessionsAreVerified ==
    \A s \in Sessions : login[s] # None => verified[login[s].of]

\* One after the other, the end of an account ends its sessions and its links.
NothingOutlivesItsAccount ==
    /\ \A l \in Links : link[l] # None => user[link[l].of] = "live"
    /\ ~met => \A s \in Sessions : login[s] # None => user[login[s].of] = "live"

\* Who can get in: sessions of the current password of a verified account that
\* is still there, and links that work once.
SessionsAreSound ==
    /\ SessionsOfThisPassword
    /\ LinksWorkOnce
    /\ SessionsAreVerified
    /\ NothingOutlivesItsAccount
=============================================================================
