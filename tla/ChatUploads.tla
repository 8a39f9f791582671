---------------------------- MODULE ChatUploads ----------------------------
(***************************************************************************)
(* The files of a web question: send_message of app/chat/router.py stores   *)
(* them one by one under workspace/turn/filename before it commits the turn *)
(* that names them, and deletes them when something fails on the way.  The  *)
(* bucket and the database share no transaction.                            *)
(***************************************************************************)
EXTENDS Naturals, Sequences, FiniteSets

CONSTANTS
    Questions,     \* requests with files, each the turn it would create
    FileNames,     \* names of the attached files
    Bodies,        \* their contents
    MostFilesSent  \* MAX_FILES_PER_MESSAGE
ASSUME UploadsAssumption == MostFilesSent \in Nat \ {0}

VARIABLES
    posting,  \* [question -> how far its request has come, and with what]
    bucket,   \* the objects of the bucket
    fileRows, \* the ChatFile rows that are committed
    expired,  \* questions whose objects the bucket has dropped by their age
    litter    \* questions whose objects nobody could delete: a crash, or a
              \* bucket that refused

uploadVars == <<posting, bucket, fileRows, expired, litter>>

File == [name : FileNames, body : Bodies]
Object == [turn : Questions, name : FileNames, body : Bodies]
ChatFile == Object
NewRequest == [step |-> "new", files |-> <<>>, stored |-> 0]

Step(q, s) == posting' = [posting EXCEPT ![q].step = s]
KeysOf(q) == {posting[q].files[k].name : k \in 1..posting[q].stored}
Uploaded(q) == {o \in bucket : o.turn = q /\ o.name \in KeysOf(q)}

-----------------------------------------------------------------------------
\* Too many files, no bucket, paths that do not match, a declared size too
\* large, the day's bytes spent: refused before anything is stored.  An error
\* of the limit's check lets the request pass.
AcceptFiles(q, files) ==
    /\ posting[q].step = "new"
    /\ \/ /\ Len(files) <= MostFilesSent
          /\ posting' = [posting EXCEPT ![q] = [step |-> "begin", files |-> files, stored |-> 0]]
       \/ Step(q, "refused")
    /\ UNCHANGED <<bucket, fileRows, expired, litter>>

\* The session and the turn, flushed.  When that fails the handler trips over
\* uploaded_s3_keys, which does not exist yet; nothing is stored either way.
BeginTurn(q) ==
    /\ posting[q].step = "begin"
    /\ Step(q, "upload") \/ Step(q, "failed")
    /\ UNCHANGED <<bucket, fileRows, expired, litter>>

\* One file: read, validated, its text extracted, stored.  A refusal by the
\* validator is no HTTPException, so the files are cleaned twice.
UploadFile(q) ==
    LET i == posting[q].stored + 1
        f == posting[q].files[i]
        key(o) == o.turn = q /\ o.name = f.name
    IN  /\ posting[q].step = "upload" /\ i <= Len(posting[q].files)
        /\ \/ /\ bucket' = {o \in bucket : ~key(o)}
                             \union {[turn |-> q, name |-> f.name, body |-> f.body]}
              /\ posting' = [posting EXCEPT ![q].stored = i]
           \/ /\ Step(q, "cleanTwice") \/ Step(q, "clean")
              /\ UNCHANGED bucket
    /\ UNCHANGED <<fileRows, expired, litter>>

\* The job, and its mention of the files.
CreateJob(q) ==
    /\ posting[q].step = "upload" /\ posting[q].stored = Len(posting[q].files)
    /\ Step(q, "commit") \/ Step(q, "clean")
    /\ UNCHANGED <<bucket, fileRows, expired, litter>>

\* The commit is before the queue, so that the worker finds the job.
CommitTurn(q) ==
    /\ posting[q].step = "commit"
    /\ \/ /\ fileRows' = fileRows \union
                 {[turn |-> q, name |-> f.name, body |-> f.body]
                     : f \in {posting[q].files[k] : k \in DOMAIN posting[q].files}}
          /\ Step(q, "send")
       \/ Step(q, "clean") /\ UNCHANGED fileRows
    /\ UNCHANGED <<bucket, expired, litter>>

\* enqueue_job raises what the queue raises; what is committed stays.
SendJob(q) ==
    /\ posting[q].step = "send"
    /\ Step(q, "done") \/ Step(q, "cleanCommitted")
    /\ UNCHANGED <<bucket, fileRows, expired, litter>>

CleanNothing(q) ==   \* Faulty: the files of a failed request are left.
    /\ posting[q].step \in {"cleanTwice", "clean", "cleanCommitted"}
    /\ Step(q, "failed")
    /\ UNCHANGED <<bucket, fileRows, expired, litter>>

\* delete_files answers False when the bucket refuses; nobody looks.
CleanUp(q) ==
    LET after == CASE posting[q].step = "cleanTwice" -> "clean"
                   [] posting[q].step = "clean" -> "failed"
                   [] OTHER -> "unsent"
        last == posting[q].step # "cleanTwice"
    IN  /\ posting[q].step \in {"cleanTwice", "clean", "cleanCommitted"}
        /\ \/ /\ bucket' = bucket \ Uploaded(q)
              /\ UNCHANGED litter
           \/ /\ litter' = IF last /\ Uploaded(q) # {} THEN litter \union {q} ELSE litter
              /\ UNCHANGED bucket
        /\ Step(q, after)
    /\ UNCHANGED <<fileRows, expired>>

\* The process dies: what is not committed is gone, the objects are not.
RequestDies(q) ==
    /\ posting[q].step \in {"begin", "upload", "commit", "send", "clean", "cleanTwice",
                            "cleanCommitted"}
    /\ Step(q, "failed")
    /\ litter' = IF Uploaded(q) # {} THEN litter \union {q} ELSE litter
    /\ UNCHANGED <<bucket, fileRows, expired>>

-----------------------------------------------------------------------------
\* The session goes with its turns and their files; the objects stay.
DeleteConversation(q) ==
    /\ posting[q].step \in {"done", "unsent", "failed"}
    /\ \E r \in fileRows : r.turn = q
    /\ fileRows' = {r \in fileRows : r.turn # q}
    /\ Step(q, "deleted")
    /\ UNCHANGED <<bucket, expired, litter>>

\* The bucket's own rule, 60 days.
ExpireObjects(q) ==
    /\ posting[q].step \in {"done", "unsent", "failed", "deleted"}
    /\ \E o \in bucket : o.turn = q
    /\ bucket' = {o \in bucket : o.turn # q}
    /\ expired' = expired \union {q}
    /\ UNCHANGED <<posting, fileRows, litter>>

\* What the link of a file leads to: signing it asks the bucket nothing, so
\* the 410 for a file that expired is never given.
Linked(r) == {o \in bucket : o.turn = r.turn /\ o.name = r.name}

Attachments == {<<>>} \union {<<f>> : f \in File} \union (File \X File)

UploadsInit ==
    /\ posting = [q \in Questions |-> NewRequest]
    /\ bucket = {} /\ fileRows = {} /\ expired = {} /\ litter = {}

UploadsNext == \E q \in Questions :
    \/ \E files \in Attachments : AcceptFiles(q, files)
    \/ BeginTurn(q) \/ UploadFile(q) \/ CreateJob(q) \/ CommitTurn(q) \/ SendJob(q)
    \/ CleanUp(q) \/ RequestDies(q)
    \/ DeleteConversation(q) \/ ExpireObjects(q)

UploadsSpec == UploadsInit /\ [][UploadsNext]_uploadVars

UploadsTypeOK ==
    /\ posting \in [Questions -> [step : {"new", "refused", "begin", "upload", "commit", "send",
                       "done", "clean", "cleanTwice", "cleanCommitted", "failed", "unsent",
                       "deleted"},
                     files : Attachments, stored : 0..2]]
    /\ bucket \subseteq Object /\ fileRows \subseteq ChatFile
    /\ expired \subseteq Questions /\ litter \subseteq Questions

\* The link of a committed file leads to what was attached, if no two files of
\* the message have the same name, until the object is too old; except when
\* the queue refused the job: its files are deleted, its rows are not.
LinkLeadsToFile == \A r \in fileRows :
    LET named == {f \in fileRows : f.turn = r.turn /\ f.name = r.name}
    IN  posting[r.turn].step \in {"send", "done"} /\ r.turn \notin expired
            => /\ Cardinality(Linked(r)) = 1
               /\ Cardinality(named) = 1 => Linked(r) = {r}

\* A request that failed leaves no object behind, unless it died or the bucket
\* refused to delete.
FailureLeavesNothing == \A q \in Questions \ litter :
    posting[q].step \in {"failed", "unsent", "refused"} => \A o \in bucket : o.turn # q

\* The rows and the bucket agree as far as two stores without a common
\* transaction can.
UploadsAreSound == LinkLeadsToFile /\ FailureLeavesNothing
=============================================================================
