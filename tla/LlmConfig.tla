----------------------------- MODULE LlmConfig -----------------------------
(***************************************************************************)
(* The LLM of a workspace (app/llm): its one row of llm_provider_configs,  *)
(* the owner's requests that create, change and delete it, the factory     *)
(* that turns it into an LLM, and the rate limiter's question whether the  *)
(* workspace brings its own.  A request loads the row in one statement and *)
(* writes in another, and an UPDATE names only the columns that the        *)
(* request has changed with respect to what it loaded.                     *)
(***************************************************************************)
EXTENDS Naturals, FiniteSets

CONSTANTS
    LlmOwners,    \* requests of owners at the same time
    ApiKeys,      \* the keys they may give
    LlmProviders, \* the providers they may choose, "vibemonitor" apart
    MostRows,     \* rows that are ever created, for the bound
    NoRow
ASSUME LlmAssumption ==
    LlmProviders \subseteq {"openai", "azure_openai", "gemini"} /\ MostRows \in Nat

VARIABLES
    llmRow,     \* the row of the workspace, or NoRow
    numbered,   \* rows created so far: the ids
    wish,       \* [request -> what it asks and where it stands]
    wishesCross \* whether two requests have run at the same time

llmVars == <<llmRow, numbered, wish, wishesCross>>

\* config_encrypted: what the provider needs, which is a key and, for Azure alone,
\* an endpoint and a deployment.
Blob == [for : LlmProviders, apiKey : ApiKeys]
HasEndpoint(blob) == blob.for = "azure_openai"

LlmProviderConfig == [id : 1..MostRows, provider : LlmProviders, blob : Blob]

NoWish == [op |-> "none", step |-> "rest", blob |-> NoRow, seen |-> NoRow]
Wish == [op : {"none", "put", "delete"}, step : {"rest", "load", "write"},
         blob : Blob \union {NoRow}, seen : LlmProviderConfig \union {NoRow}]

Wishes(c, w) ==
    /\ wish' = [wish EXCEPT ![c] = w]
    /\ wishesCross' = (wishesCross \/ \E d \in LlmOwners \ {c} : wish[d].step # "rest")

-----------------------------------------------------------------------------
\* Only an owner gets so far, and only with a key and, for Azure, an endpoint.
AskConfig(c) ==
    /\ wish[c].step = "rest"
    /\ \E b \in Blob : Wishes(c, [NoWish EXCEPT !.op = "put", !.step = "load", !.blob = b])
    /\ UNCHANGED <<llmRow, numbered>>

\* "Switching to VibeMonitor means DELETE config (reset to default)."
AskPlatform(c) ==
    /\ wish[c].step = "rest"
    /\ Wishes(c, [NoWish EXCEPT !.op = "delete", !.step = "load"])
    /\ UNCHANGED <<llmRow, numbered>>

LoadConfig(c) ==
    /\ wish[c].step = "load"
    /\ Wishes(c, IF wish[c].op = "delete" /\ llmRow = NoRow THEN NoWish
                 ELSE [wish[c] EXCEPT !.step = "write", !.seen = llmRow])
    /\ UNCHANGED <<llmRow, numbered>>

\* The row of another request that was quicker: "unique=True".
CreateConfig(c) ==
    /\ wish[c].op = "put" /\ wish[c].step = "write" /\ wish[c].seen = NoRow
    /\ IF llmRow # NoRow THEN UNCHANGED <<llmRow, numbered>>
       ELSE /\ numbered < MostRows
            /\ numbered' = numbered + 1
            /\ llmRow' = [id |-> numbered', provider |-> wish[c].blob.for, blob |-> wish[c].blob]
    /\ Wishes(c, NoWish)

Same(c) == llmRow # NoRow /\ llmRow.id = wish[c].seen.id

UpdateKeyOnly(c) ==   \* Faulty: the provider of the row is left.
    /\ wish[c].op = "put" /\ wish[c].step = "write" /\ wish[c].seen # NoRow
    /\ llmRow' = IF Same(c) THEN [llmRow EXCEPT !.blob = wish[c].blob] ELSE llmRow
    /\ Wishes(c, NoWish)
    /\ UNCHANGED numbered

\* A row that is gone fails the request; a key is never encrypted alike twice.
UpdateConfig(c) ==
    LET w == wish[c] IN
    /\ w.op = "put" /\ w.step = "write" /\ w.seen # NoRow
    /\ llmRow' = IF ~Same(c) THEN llmRow
                 ELSE [llmRow EXCEPT !.blob = w.blob,
                          !.provider = IF w.blob.for = w.seen.provider THEN @ ELSE w.blob.for]
    /\ Wishes(c, NoWish)
    /\ UNCHANGED numbered

DeleteConfig(c) ==
    /\ wish[c].op = "delete" /\ wish[c].step = "write"
    /\ llmRow' = IF Same(c) THEN NoRow ELSE llmRow
    /\ Wishes(c, NoWish)
    /\ UNCHANGED numbered
-----------------------------------------------------------------------------
LlmInit ==
    /\ llmRow = NoRow /\ numbered = 0
    /\ wish = [c \in LlmOwners |-> NoWish]
    /\ wishesCross = FALSE

LlmNext ==
    \E c \in LlmOwners :
        \/ AskConfig(c) \/ AskPlatform(c) \/ LoadConfig(c)
        \/ CreateConfig(c) \/ UpdateConfig(c) \/ DeleteConfig(c)

LlmSpec == LlmInit /\ [][LlmNext]_llmVars
-----------------------------------------------------------------------------
(* What a row means to those who read it. *)

\* An Azure row without an endpoint raises, and whatever raises "falls back to
\* VibeMonitor default".
GetLlmForWorkspace(row) ==
    IF row = NoRow THEN "groq"
    ELSE IF row.provider = "azure_openai" /\ ~HasEndpoint(row.blob) THEN "groq"
    ELSE row.provider

IsByollmWorkspace(row) == row # NoRow

LlmTypeOK ==
    /\ llmRow \in LlmProviderConfig \union {NoRow}
    /\ numbered \in 0..MostRows
    /\ wish \in [LlmOwners -> Wish]
    /\ wishesCross \in BOOLEAN

\* One request after the other, the key of a row is the key of its provider.
KeyOfItsProvider == ~wishesCross /\ llmRow # NoRow => llmRow.blob.for = llmRow.provider

\* One request after the other, whom the rate limiter lets pass, because of an LLM of
\* its own, is given that by the factory and not the default one.
UnlimitedBringsItsOwn ==
    ~wishesCross /\ IsByollmWorkspace(llmRow) => GetLlmForWorkspace(llmRow) # "groq"

LlmIsSound == KeyOfItsProvider /\ UnlimitedBringsItsOwn
=============================================================================
