---------------------------- MODULE SlackMasking ----------------------------
(***************************************************************************)
(* What becomes of the words of a Slack question: secrets are struck out,   *)
(* personal values are replaced by numbered tokens before the guard, the    *)
(* queue or the agent sees them, and the worker puts the values back into   *)
(* the answer with the copy of the mapping the job carries.                 *)
(***************************************************************************)
EXTENDS Naturals, FiniteSets, SequencesExt

CONSTANTS
    PersonalValues,  \* personal values people write: [kind, of, n], of a prefix
    MostWords,       \* words of a message (a bound)
    MostMessages     \* earlier messages of a thread (a bound)

ASSUME SlackMaskingAssumption ==
    /\ IsFiniteSet(PersonalValues)
    /\ \A v \in PersonalValues : v.kind = "personal"
    /\ MostWords \in Nat /\ MostMessages \in Nat

VARIABLES
    mapper,    \* the tokens of this question: token -> personal value
    asking,    \* what the handler is doing with the question
    slackJob,  \* the context of the job it has queued
    recorded,  \* the security events that were stored
    shown      \* the answer posted to the thread

maskVars == <<mapper, asking, slackJob, recorded, shown>>

Secret == [kind |-> "secret", of |-> "none", n |-> 0]
Redacted == [kind |-> "redacted", of |-> "none", n |-> 0]
EntityPrefixes == {v.of : v \in PersonalValues}
Token(prefix, n) == [kind |-> "token", of |-> prefix, n |-> n]
Tokens == {Token(p, n) : p \in EntityPrefixes, n \in 1..Cardinality(PersonalValues)}
TypedWords == PersonalValues \union {Secret} \union {Token(p, 1) : p \in EntityPrefixes}
Texts == UNION {[1..n -> TypedWords] : n \in 0..MostWords}
Threads == UNION {[1..n -> Texts] : n \in 1..MostMessages}

NoJob == [query |-> <<>>, history |-> <<>>, mapping |-> <<>>]
\* text: as it was typed; masked: as it goes on; verdict: what the guard said, or
\* that it was not asked; lost: a security event could not be stored.
NotAsking == [step |-> "idle", text |-> <<>>, thread |-> <<>>, masked |-> <<>>,
              verdict |-> "unasked", lost |-> FALSE]

SlackMaskingInit ==
    /\ mapper = <<>>
    /\ asking = NotAsking
    /\ slackJob = NoJob
    /\ recorded = {}
    /\ shown = <<>>

-----------------------------------------------------------------------------
\* A value keeps the token it has; a new one takes the next number of its prefix.
GetPlaceholder(tokens, v) ==
    LET t == Token(v.of, 1 + Cardinality({u \in DOMAIN tokens : u.of = v.of})) IN
    IF \E u \in DOMAIN tokens : tokens[u] = v THEN tokens
    ELSE [u \in DOMAIN tokens \union {t} |-> IF u = t THEN v ELSE tokens[u]]

MaskSecrets(text) == [i \in DOMAIN text |-> IF text[i] = Secret THEN Redacted ELSE text[i]]

\* found: the personal values the analyzer recognises. They are numbered from the
\* last one in the text to the first.
MaskedBy(tokens, text, found) ==
    LET Word(k) == text[Len(text) + 1 - k]
        after[k \in 0..Len(text)] ==   \* the last k words
            IF k = 0 THEN tokens
            ELSE IF Word(k) \in found THEN GetPlaceholder(after[k - 1], Word(k))
            ELSE after[k - 1]
    IN after[Len(text)]

\* Messages are masked in their order, by one mapper.
MaskedByAll(tokens, texts, found) ==
    LET after[k \in 0..Len(texts)] ==   \* the first k messages
            IF k = 0 THEN tokens ELSE MaskedBy(after[k - 1], texts[k], found)
    IN after[Len(texts)]

Mask(tokens, text, found) ==
    [i \in DOMAIN text |->
        IF text[i] \in found THEN CHOOSE t \in DOMAIN tokens : tokens[t] = text[i]
        ELSE MaskSecrets(text)[i]]

\* from_mapping and unmask: a token the mapping does not have stays.
Unmask(mapping, text) ==
    [i \in DOMAIN text |->
        IF text[i] \in DOMAIN mapping THEN mapping[text[i]] ELSE text[i]]

-----------------------------------------------------------------------------
\* A question, in a thread with earlier messages or not. An image has no text.
MaskQuestion ==
    /\ asking.step = "idle"
    /\ \E text \in Texts, found \in SUBSET PersonalValues :
          /\ found \subseteq Range(text)
          /\ LET tokens == MaskedBy(mapper, text, found) IN
             /\ mapper' = tokens
             /\ asking' = [asking EXCEPT !.step = "guard", !.text = text,
                                         !.masked = Mask(tokens, text, found)]
    /\ UNCHANGED <<slackJob, recorded, shown>>

\* The analyzer is not there: nothing goes on, and the person is told.
MaskFails ==
    /\ asking.step = "idle"
    /\ asking' = [asking EXCEPT !.step = "done"]
    /\ UNCHANGED <<mapper, slackJob, recorded, shown>>

SecurityEvents == [type: {"injection", "degraded"}, verdict: {"false", "other", "raises", "off"}]

\* A failure to store it is logged and forgotten.
StoreSecurityEvent(type, verdict) ==
    \/ /\ recorded' = recorded \union {[type |-> type, verdict |-> verdict]}
       /\ asking' = [asking EXCEPT !.step = "done", !.verdict = verdict]
    \/ /\ recorded' = recorded
       /\ asking' = [asking EXCEPT !.step = "done", !.verdict = verdict, !.lost = TRUE]

\* An empty message passes unasked. Only "true" lets a message through: "false" is
\* an injection, and any other answer, an error, or no guard at all blocks too.
GuardMessage ==
    /\ asking.step = "guard"
    /\ \/ /\ asking.masked = <<>>
          /\ asking' = [asking EXCEPT !.step = "history"]
          /\ UNCHANGED recorded
       \/ /\ asking.masked # <<>>
          /\ asking' = [asking EXCEPT !.step = "history", !.verdict = "true"]
          /\ UNCHANGED recorded
       \/ /\ asking.masked # <<>>
          /\ \/ StoreSecurityEvent("injection", "false")
             \/ \E v \in {"other", "raises", "off"} : StoreSecurityEvent("degraded", v)
    /\ UNCHANGED <<mapper, slackJob, shown>>

\* The earlier messages of the thread, as they were posted; none in a new thread or
\* if Slack does not answer.
FetchHistory ==
    /\ asking.step = "history"
    /\ \E thread \in Threads \union {<<>>} :
          asking' = [asking EXCEPT !.step = "queue", !.thread = thread]
    /\ UNCHANGED <<mapper, slackJob, recorded, shown>>

\* The team's token cannot be decrypted, or the workspace has no GitHub.
HistoryFails ==
    /\ asking.step = "history"
    /\ asking' = [asking EXCEPT !.step = "done"]
    /\ UNCHANGED <<mapper, slackJob, recorded, shown>>

\* The mapping stays the one that was copied for the question.
QueueWithOldMapping ==
    /\ asking.step = "queue"
    /\ \E found \in SUBSET PersonalValues :
          /\ found \subseteq UNION {Range(asking.thread[i]) : i \in DOMAIN asking.thread}
          /\ LET tokens == MaskedByAll(mapper, asking.thread, found) IN
             /\ mapper' = tokens
             /\ slackJob' = [query |-> asking.masked, mapping |-> mapper,
                    history |-> [i \in DOMAIN asking.thread |->
                                    Mask(tokens, asking.thread[i], found)]]
    /\ asking' = [asking EXCEPT !.step = "queued"]
    /\ UNCHANGED <<recorded, shown>>

\* Its messages are masked in their order by the question's mapper, and then the job
\* takes the mapping again.
MaskHistory ==
    /\ asking.step = "queue"
    /\ \E found \in SUBSET PersonalValues :
          /\ found \subseteq UNION {Range(asking.thread[i]) : i \in DOMAIN asking.thread}
          /\ LET tokens == MaskedByAll(mapper, asking.thread, found) IN
             /\ mapper' = tokens
             /\ slackJob' = [query |-> asking.masked, mapping |-> tokens,
                    history |-> [i \in DOMAIN asking.thread |->
                                    Mask(tokens, asking.thread[i], found)]]
    /\ asking' = [asking EXCEPT !.step = "queued"]
    /\ UNCHANGED <<recorded, shown>>

\* At one of them the analyzer fails: the job goes without a history, with the
\* mapping of the question, while the mapper keeps what it has numbered.
MaskHistoryFails ==
    /\ asking.step = "queue"
    /\ \E k \in DOMAIN asking.thread :
          mapper' = MaskedByAll(mapper, SubSeq(asking.thread, 1, k - 1), PersonalValues)
    /\ slackJob' = [query |-> asking.masked, history |-> <<>>, mapping |-> mapper]
    /\ asking' = [asking EXCEPT !.step = "queued"]
    /\ UNCHANGED <<recorded, shown>>

\* The agent's answer repeats the question, or a message of the thread, or makes up
\* a token; what is posted has its values back.
AnswerQuestion ==
    /\ asking.step = "queued"
    /\ \E text \in {slackJob.query} \union Range(slackJob.history)
                     \union {<<t>> : t \in Tokens} :
          shown' = Unmask(slackJob.mapping, text)
    /\ asking' = [asking EXCEPT !.step = "done"]
    /\ UNCHANGED <<mapper, slackJob, recorded>>

SlackMaskingNext ==
    \/ MaskQuestion \/ MaskFails \/ GuardMessage \/ FetchHistory \/ HistoryFails
    \/ MaskHistory \/ MaskHistoryFails \/ AnswerQuestion

SlackMaskingSpec == SlackMaskingInit /\ [][SlackMaskingNext]_maskVars

-----------------------------------------------------------------------------
SlackMaskingTypeOK ==
    /\ DOMAIN mapper \subseteq Tokens /\ Range(mapper) \subseteq PersonalValues
    /\ asking.step \in {"idle", "guard", "history", "queue", "queued", "done"}
    /\ asking.verdict \in {"unasked", "true", "false", "other", "raises", "off"}
    /\ asking.lost \in BOOLEAN
    /\ DOMAIN slackJob.mapping \subseteq DOMAIN mapper
    /\ recorded \subseteq SecurityEvents

Typed == {asking.text} \union Range(asking.thread)
NoTokenTyped == \A text \in Typed : Range(text) \intersect Tokens = {}
HasJob == slackJob # NoJob

\* Nobody having typed a token himself, the agent can give every word back: what it
\* is told of the question and of the thread unmasks to what was written, the
\* secrets struck out, also when a message of the thread could not be masked.
WordsComeBack ==
    HasJob /\ NoTokenTyped =>
        /\ Unmask(slackJob.mapping, slackJob.query) = MaskSecrets(asking.text)
        /\ \A i \in DOMAIN slackJob.history :
              Unmask(slackJob.mapping, slackJob.history[i]) = MaskSecrets(asking.thread[i])

\* One person is one token, in the question and in the thread; and numbers leave no
\* gap, so that a token is never given twice.
OneTokenPerValue ==
    \A t, u \in DOMAIN mapper :
        /\ mapper[t] = mapper[u] => t = u
        /\ t.of = mapper[t].of
        /\ t.n > 1 => Token(t.of, t.n - 1) \in DOMAIN mapper

\* An answer shows no personal value that the question and the thread have not.
ShowsOnlyWhatWasWritten ==
    Range(shown) \intersect PersonalValues \subseteq UNION {Range(t) : t \in Typed}

\* A question is queued if the guard has said "true", or if it has no words; one that
\* was judged otherwise is on record, unless the database failed.
OnlyJudgedIsQueued ==
    /\ HasJob => asking.verdict = "true" \/ asking.text = <<>>
    /\ asking.verdict \in {"false", "other", "raises", "off"}
       => asking.lost \/ \E e \in recorded :
             e.verdict = asking.verdict /\ (e.type = "injection" <=> e.verdict = "false")

\* What was masked comes back whole and to the right person, and what was not
\* judged safe goes no further.
MaskIsSound ==
    /\ WordsComeBack /\ OneTokenPerValue /\ ShowsOnlyWhatWasWritten
    /\ OnlyJudgedIsQueued
=============================================================================
