--------------------------- MODULE ReviewRequests ---------------------------
(***************************************************************************)
(* Health reviews that users ask for, of one service or of every service   *)
(* of a workspace at once, and what the lists of reviews show.             *)
(*                                                                         *)
(* An action is one query, one commit or one message.  The worker that     *)
(* takes the messages is HealthReviews'; here it only ends a review.       *)
(***************************************************************************)
EXTENDS Naturals, FiniteSets

CONSTANTS
    Subjects,    \* services of the workspace
    Starts, Ends,\* when a review period that a request names starts and ends
    Rolling,     \* the period of a request that names none: no two are the same
    Clerks,      \* requests that are served at the same time
    MostReviews, \* reviews that are ever created (a bound)
    NoPeriod

ASSUME RequestsAssumption ==
    /\ NoPeriod \notin Subjects /\ Rolling \notin Starts \union Ends
    /\ MostReviews \in Nat

VARIABLES
    subjects, \* rows of services
    reviews,  \* rows of service_reviews, numbered as they are created
    created,  \* how many have been
    order,    \* what a request is doing
    enqueued, \* reviews with a message that no worker has deleted
    unpublished \* history: reviews whose message could not be sent, or whose
              \* request died before it was

orderVars == <<subjects, reviews, created, order, enqueued, unpublished>>

Ids == 1..MostReviews
AllPeriods == [start: Starts, end: Ends] \union [start: {Rolling}, end: {Rolling}]
ReviewStatuses == {"QUEUED", "GENERATING", "COMPLETED", "FAILED"}
ServiceReview == [id: Ids, of: Subjects, period: AllPeriods, status: ReviewStatuses]
NoOrder == [step |-> "idle", bulk |-> FALSE, period |-> NoPeriod, seen |-> {}, todo |-> {},
            new |-> {}, skipped |-> {}, send |-> {}]

RequestsTypeOK ==
    /\ subjects \subseteq Subjects
    /\ reviews \subseteq ServiceReview
    /\ \A r, q \in reviews : r.id = q.id => r = q
    /\ created \in 0..MostReviews
    /\ enqueued \subseteq Ids /\ unpublished \subseteq Ids
    /\ \A c \in Clerks :
        /\ order[c].step \in {"idle", "check", "send"}
        /\ order[c].period \in AllPeriods \union {NoPeriod}
        /\ order[c].seen \union order[c].todo \union order[c].new \subseteq Subjects
        /\ order[c].skipped \union order[c].send \subseteq Ids

RequestsInit ==
    /\ subjects = Subjects
    /\ reviews = {}
    /\ created = 0
    /\ order = [c \in Clerks |-> NoOrder]
    /\ enqueued = {}
    /\ unpublished = {}

Does(c, o) == order' = [order EXCEPT ![c] = o]

-----------------------------------------------------------------------------
SameWeek(s, p) == {r \in reviews : r.of = s /\ r.period = p /\ p.start # Rolling}

\* The unique index over service and start, whatever the end and the status.
Taken(s, p) == \E r \in reviews : r.of = s /\ r.period.start = p.start /\ p.start # Rolling

\* A request for one service, or for all there are, starts; none needs no more.
CreateBulkReviews(c, p) ==
    /\ order[c].step = "idle" /\ subjects # {}
    /\ Does(c, [NoOrder EXCEPT !.step = "check", !.bulk = TRUE, !.period = p,
                               !.seen = subjects, !.todo = subjects])
    /\ UNCHANGED <<subjects, reviews, created, enqueued, unpublished>>

RequestReview(c, s, p) ==
    /\ order[c].step = "idle" /\ s \in subjects
    /\ Does(c, [NoOrder EXCEPT !.step = "check", !.period = p, !.todo = {s}])
    /\ UNCHANGED <<subjects, reviews, created, enqueued, unpublished>>

\* A review that is in progress is named instead of a new one.
CheckInProgress(s, p) == {r \in SameWeek(s, p) : r.status \in {"QUEUED", "GENERATING"}}

CheckService(c, s) ==
    LET o == order[c]
        found == IF o.bulk THEN CheckInProgress(s, o.period)
                 ELSE {r \in SameWeek(s, o.period) : r.status # "FAILED"}
    IN  /\ o.step = "check" /\ s \in o.todo
        /\ IF found = {} THEN Does(c, [o EXCEPT !.todo = @ \ {s}, !.new = @ \union {s}])
           ELSE IF o.bulk THEN Does(c, [o EXCEPT !.todo = @ \ {s},
                                                 !.skipped = @ \union {r.id : r \in found}])
           ELSE Does(c, NoOrder)
        /\ UNCHANGED <<subjects, reviews, created, enqueued, unpublished>>

Room(c) == created + Cardinality(order[c].new) <= MostReviews
Insertable(c) == \A s \in order[c].new : s \in subjects /\ ~Taken(s, order[c].period)

\* The numbers of the new rows, in any order of the services.
Numbered(new) ==
    {f \in [new -> (created + 1)..(created + Cardinality(new))] :
        \A s, t \in new : f[s] = f[t] => s = t}

\* One transaction for all of them.
CommitReviews(c) ==
    LET o == order[c]
    IN  /\ o.step = "check" /\ o.todo = {}
        /\ Insertable(c) /\ Room(c)
        /\ created' = created + Cardinality(o.new)
        /\ \E f \in Numbered(o.new) :
            /\ reviews' = reviews \union
                   {[id |-> f[s], of |-> s, period |-> o.period, status |-> "QUEUED"] :
                       s \in o.new}
            /\ Does(c, IF o.new = {} THEN NoOrder
                       ELSE [o EXCEPT !.step = "send", !.new = {},
                                      !.send = {f[s] : s \in o.new}])
        /\ UNCHANGED <<subjects, enqueued, unpublished>>

\* One row that cannot be inserted refuses them all.
CommitRefused(c) ==
    /\ order[c].step = "check" /\ order[c].todo = {}
    /\ ~Insertable(c)
    /\ Does(c, NoOrder)
    /\ UNCHANGED <<subjects, reviews, created, enqueued, unpublished>>

StopsAfterFailure(o, id) == NoOrder   \* Faulty: the rest is not sent.
AfterSend(o, id) ==
    IF o.send = {id} THEN NoOrder ELSE [o EXCEPT !.send = @ \ {id}]

PublishReview(c, id) ==
    /\ order[c].step = "send" /\ id \in order[c].send
    /\ enqueued' = enqueued \union {id}
    /\ Does(c, AfterSend(order[c], id))
    /\ UNCHANGED <<subjects, reviews, created, unpublished>>

\* A failure is logged, and the request goes on.
PublishFails(c, id) ==
    /\ order[c].step = "send" /\ id \in order[c].send
    /\ unpublished' = unpublished \union {id}
    /\ Does(c, AfterSend(order[c], id))
    /\ UNCHANGED <<subjects, reviews, created, enqueued>>

\* A database error or a client that goes away rolls back; the process dies.
RequestDies(c) ==
    /\ order[c].step # "idle"
    /\ unpublished' = unpublished \union order[c].send
    /\ Does(c, NoOrder)
    /\ UNCHANGED <<subjects, reviews, created, enqueued>>

-----------------------------------------------------------------------------
(* The worker, and what ends reviews with their service. *)

Becomes(r, status) == reviews' = (reviews \ {r}) \union {[r EXCEPT !.status = status]}

Generate(r) ==
    /\ r.id \in enqueued /\ r.status = "QUEUED"
    /\ Becomes(r, "GENERATING")
    /\ UNCHANGED <<subjects, created, order, enqueued, unpublished>>

FinishReview(r, status) ==
    /\ r.status = "GENERATING"
    /\ Becomes(r, status)
    /\ enqueued' = enqueued \ {r.id}
    /\ UNCHANGED <<subjects, created, order, unpublished>>

DropSubject(s) ==
    /\ s \in subjects
    /\ subjects' = subjects \ {s}
    /\ reviews' = {r \in reviews : r.of # s}
    /\ UNCHANGED <<created, order, enqueued, unpublished>>

-----------------------------------------------------------------------------
(* What the lists show. *)

\* The latest review of each period, of those with the status asked for.
ListReviews(s, statuses) ==
    LET mine == {r \in reviews : r.of = s /\ r.status \in statuses}
    IN  {r \in mine : \A q \in mine : q.period = r.period /\ r.period.start # Rolling
                                         => q.id <= r.id}

RequestsNext ==
    \/ \E c \in Clerks :
        \/ \E p \in AllPeriods : \/ CreateBulkReviews(c, p)
                                 \/ \E s \in Subjects : RequestReview(c, s, p)
        \/ \E s \in Subjects : CheckService(c, s)
        \/ CommitReviews(c) \/ CommitRefused(c) \/ RequestDies(c)
        \/ \E id \in Ids : PublishReview(c, id) \/ PublishFails(c, id)
    \/ \E r \in reviews :
        Generate(r) \/ \E status \in {"COMPLETED", "FAILED"} : FinishReview(r, status)
    \/ \E s \in Subjects : DropSubject(s)

RequestsSpec == RequestsInit /\ [][RequestsNext]_orderVars

-----------------------------------------------------------------------------
\* A review that is QUEUED has a message or will have one, unless that message
\* could not be sent or its request died: whatever else goes wrong, and whoever
\* else asks, no review blocks its service.
QueuedIsSent ==
    \A r \in reviews : r.status = "QUEUED" =>
        r.id \in enqueued \union unpublished \union UNION {order[c].send : c \in Clerks}

\* Without a filter the list of a service shows each of its reviews: no week is
\* counted twice, and none hides another.
NothingIsHidden ==
    \A s \in Subjects :
        /\ ListReviews(s, ReviewStatuses) = {r \in reviews : r.of = s}
        /\ \A r, q \in ListReviews(s, ReviewStatuses) :
               r.period.start = q.period.start /\ r.period.start # Rolling => r = q

\* A request for a whole workspace leaves no service out: of those it saw, each that
\* is still there gets a review of the period, or has one that the answer names.
BulkIsWhole ==
    \A c \in Clerks :
        LET o == order[c]
        IN  o.bulk /\ o.todo = {} =>
                \A s \in o.seen \intersect subjects :
                    \/ s \in o.new
                    \/ \E r \in reviews : r.of = s /\ r.period = o.period

\* What a request promises: a review that is queued is sent or blamed on its
\* publication, all reviews are listed, and a bulk request leaves nothing out.
RequestsAreSound == QueuedIsSent /\ NothingIsHidden /\ BulkIsWhole
=============================================================================
