--------------------------- MODULE MailCampaigns ---------------------------
(***************************************************************************)
(* The mail that a scheduler has sent to the users: app/email_service.  A    *)
(* sweep loads the users once, finds who is due, and posts to Postmark one  *)
(* by one; a row of "emails" is what keeps the next sweep from posting      *)
(* again.  Postmark and the database share no transaction, and nothing      *)
(* keeps two sweeps of one campaign apart.                                  *)
(***************************************************************************)
EXTENDS Naturals, Sequences, FiniteSets

CONSTANTS
    Recipients,      \* users, who all signed up on day 0
    Sweeps,          \* calls of the scheduler, one campaign each
    Campaigns,       \* "reminder", "help", "feedback"
    HelpWithin,      \* 24 hours
    FeedbackAfter,   \* seven days
    Interval,        \* ONBOARDING_REMINDER_INTERVAL_DAYS
    MaxReminders,    \* ONBOARDING_REMINDER_MAX_EMAILS
    PostAttempts,    \* EXTERNAL_API_RETRY_ATTEMPTS
    LastDay          \* bound
ASSUME MailAssumption ==
    /\ Campaigns \subseteq {"reminder", "help", "feedback"}
    /\ {HelpWithin, FeedbackAfter, Interval, LastDay} \subseteq Nat
    /\ {MaxReminders, PostAttempts} \subseteq Nat \ {0}
    /\ IsFiniteSet(Sweeps)

VARIABLES
    today,
    subscribed,   \* newsletter_subscribed
    onboarded,    \* is_onboarded
    loggedIn,     \* users with a refresh token later than their first minutes
    sent,         \* [user -> campaign -> sent_at of the rows with status "sent"]
    mailbox,      \* [user -> campaign -> letters that Postmark has taken]
    sweep,        \* [sweep -> what it has loaded and where it is]
    sideBySide,   \* campaigns that two sweeps have run at the same time
    unrecorded,   \* letters taken without a row: an answer, a commit or the
                  \* process was lost
    quiet         \* [user -> what the mailbox held when the user unsubscribed
                  \* with no sweep under way, {} otherwise]

mailVars == <<today, subscribed, onboarded, loggedIn, sent, mailbox, sweep,
              sideBySide, unrecorded, quiet>>

Resting == [step |-> "rest", of |-> "", due |-> {}, willing |-> {}, to |-> {}, posts |-> 0]
Sweeping(s) == sweep[s].step # "rest"
Go(s, step) == sweep' = [sweep EXCEPT ![s].step = step]
Last(days) == days[Len(days)]
AllLetters(u) == mailbox[u]

-----------------------------------------------------------------------------
\* Who is due: only rows with status "sent" count.
DueIgnoringRows(u, c) ==   \* Faulty: what has been sent is not asked.
    CASE c = "reminder" -> u \notin onboarded /\ u \in subscribed /\ today > Interval
      [] c = "help" -> today <= HelpWithin
      [] OTHER -> today >= FeedbackAfter /\ u \in loggedIn

\* The reminder goes on until the user has connected GitHub.
DueReminder(u, rows) ==
    /\ u \notin onboarded /\ u \in subscribed
    /\ Len(rows) < MaxReminders
    /\ today > Interval + (IF rows = <<>> THEN 0 ELSE Last(rows))

DueHelp(rows) == today <= HelpWithin /\ rows = <<>>

DueFeedback(u, rows) == today >= FeedbackAfter /\ rows = <<>> /\ u \in loggedIn

Due(u, c) ==
    CASE c = "reminder" -> DueReminder(u, sent[u][c])
      [] c = "help" -> DueHelp(sent[u][c])
      [] OTHER -> DueFeedback(u, sent[u][c])

\* The session keeps the users it has loaded: a later query of the same user
\* does not refresh what it knew of the subscription.
StartSweep(s, c) ==
    /\ ~Sweeping(s)
    /\ sweep' = [sweep EXCEPT ![s] =
           [Resting EXCEPT !.step = "next", !.of = c, !.willing = subscribed,
                           !.due = {u \in Recipients : Due(u, c)}]]
    /\ sideBySide' = IF \E r \in Sweeps : Sweeping(r) /\ sweep[r].of = c
                     THEN sideBySide \union {c} ELSE sideBySide
    /\ UNCHANGED <<today, subscribed, onboarded, loggedIn, sent, mailbox, unrecorded, quiet>>

\* The opted-out are skipped, and counted as sent.
NextRecipient(s) ==
    /\ sweep[s].step = "next"
    /\ \/ /\ sweep[s].due = {}
          /\ sweep' = [sweep EXCEPT ![s] = Resting]
       \/ \E u \in sweep[s].due :
            sweep' = [sweep EXCEPT ![s].due = @ \ {u}, ![s].to = {u}, ![s].posts = 0,
                          ![s].step = IF u \in sweep[s].willing THEN "post" ELSE "next"]
    /\ UNCHANGED <<today, subscribed, onboarded, loggedIn, sent, mailbox, sideBySide,
                   unrecorded, quiet>>

\* Postmark takes the letter or not, and answers or not; without an answer it
\* is asked again, until the attempts are spent.
PostLetter(s) ==
    /\ sweep[s].step = "post"
    /\ \E taken, answered \in BOOLEAN :
        /\ answered => taken
        /\ mailbox' = IF taken THEN [u \in Recipients |->
                          [mailbox[u] EXCEPT ![sweep[s].of] = @ + (IF u \in sweep[s].to THEN 1 ELSE 0)]]
                      ELSE mailbox
        /\ unrecorded' = IF taken /\ ~answered THEN unrecorded + 1 ELSE unrecorded
        /\ sweep' = [sweep EXCEPT ![s].posts = @ + 1,
                       ![s].step = IF answered THEN "record"
                                   ELSE IF sweep[s].posts + 1 < PostAttempts THEN "post" ELSE "next"]
    /\ UNCHANGED <<today, subscribed, onboarded, loggedIn, sent, sideBySide, quiet>>

Recorded(s) == [u \in Recipients |->
    IF u \in sweep[s].to THEN [sent[u] EXCEPT ![sweep[s].of] = Append(@, today)] ELSE sent[u]]

\* A commit that fails leaves the session unusable, and every later recipient
\* of this sweep fails with it.
RecordLetter(s) ==
    /\ sweep[s].step = "record"
    /\ \/ /\ sent' = Recorded(s)
          /\ Go(s, "next") /\ UNCHANGED unrecorded
       \/ /\ sweep' = [sweep EXCEPT ![s] = Resting]
          /\ unrecorded' = unrecorded + 1 /\ UNCHANGED sent
    /\ UNCHANGED <<today, subscribed, onboarded, loggedIn, mailbox, sideBySide, quiet>>

SweepDies(s) ==
    /\ Sweeping(s)
    /\ sweep' = [sweep EXCEPT ![s] = Resting]
    /\ unrecorded' = IF sweep[s].step = "record" THEN unrecorded + 1 ELSE unrecorded
    /\ UNCHANGED <<today, subscribed, onboarded, loggedIn, sent, mailbox, sideBySide, quiet>>

-----------------------------------------------------------------------------
\* The link in a letter, or the settings of the account.
Unsubscribe(u) ==
    /\ u \in subscribed
    /\ subscribed' = subscribed \ {u}
    /\ quiet' = IF \E s \in Sweeps : Sweeping(s) THEN quiet
                ELSE [quiet EXCEPT ![u] = {AllLetters(u)}]
    /\ UNCHANGED <<today, onboarded, loggedIn, sent, mailbox, sweep, sideBySide, unrecorded>>

Resubscribe(u) ==
    /\ u \notin subscribed
    /\ subscribed' = subscribed \union {u}
    /\ quiet' = [quiet EXCEPT ![u] = {}]
    /\ UNCHANGED <<today, onboarded, loggedIn, sent, mailbox, sweep, sideBySide, unrecorded>>

\* The first GitHub integration; a later login.
UserActs(u) ==
    /\ \/ onboarded' = onboarded \union {u} /\ u \notin onboarded /\ UNCHANGED loggedIn
       \/ loggedIn' = loggedIn \union {u} /\ u \notin loggedIn /\ UNCHANGED onboarded
    /\ UNCHANGED <<today, subscribed, sent, mailbox, sweep, sideBySide, unrecorded, quiet>>

DayPasses ==
    /\ today < LastDay
    /\ today' = today + 1
    /\ UNCHANGED <<subscribed, onboarded, loggedIn, sent, mailbox, sweep, sideBySide,
                   unrecorded, quiet>>

MailInit ==
    /\ today = 0 /\ subscribed = Recipients /\ onboarded = {} /\ loggedIn = {}
    /\ sent = [u \in Recipients |-> [c \in Campaigns |-> <<>>]]
    /\ mailbox = [u \in Recipients |-> [c \in Campaigns |-> 0]]
    /\ sweep = [s \in Sweeps |-> Resting]
    /\ sideBySide = {} /\ unrecorded = 0 /\ quiet = [u \in Recipients |-> {}]

MailNext ==
    \/ \E s \in Sweeps :
        \/ \E c \in Campaigns : StartSweep(s, c)
        \/ NextRecipient(s) \/ PostLetter(s) \/ RecordLetter(s) \/ SweepDies(s)
    \/ \E u \in Recipients : Unsubscribe(u) \/ Resubscribe(u) \/ UserActs(u)
    \/ DayPasses

MailSpec == MailInit /\ [][MailNext]_mailVars

MailTypeOK ==
    /\ today \in 0..LastDay
    /\ subscribed \subseteq Recipients /\ onboarded \subseteq Recipients /\ loggedIn \subseteq Recipients
    /\ sent \in [Recipients -> [Campaigns -> Seq(0..LastDay)]]
    /\ mailbox \in [Recipients -> [Campaigns -> Nat]]
    /\ \A s \in Sweeps : sweep[s].step \in {"rest", "next", "post", "record"}
    /\ sideBySide \subseteq Campaigns /\ unrecorded \in Nat

\* Sweeps of a campaign that follow one another record no letter too many, and
\* reminders more than the interval apart.
NoneTooMany == \A u \in Recipients, c \in Campaigns \ sideBySide :
    /\ Len(sent[u][c]) <= IF c = "reminder" THEN MaxReminders ELSE 1
    /\ c = "reminder" => \A k \in 2..Len(sent[u][c]) : sent[u][c][k] > sent[u][c][k - 1] + Interval

\* Every row is a letter; and as long as no answer, commit or process is lost
\* every letter is a row, or is about to be.
RowsAreLetters == \A u \in Recipients, c \in Campaigns :
    LET rows == Len(sent[u][c])
        pending == Cardinality({s \in Sweeps : /\ sweep[s].step = "record"
                                               /\ sweep[s].of = c /\ u \in sweep[s].to})
    IN  /\ mailbox[u][c] >= rows + pending
        /\ unrecorded = 0 => mailbox[u][c] = rows + pending

\* Who unsubscribes while no sweep is under way gets no letter any more.
UnsubscribedIsSpared == \A u \in Recipients : quiet[u] # {} => AllLetters(u) \in quiet[u]

\* No campaign writes to a user more often than it means to.
MailIsSound == NoneTooMany /\ RowsAreLetters /\ UnsubscribedIsSpared
=============================================================================
