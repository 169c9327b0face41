---------------------------- MODULE IndexingWait ----------------------------
(***************************************************************************)
(* wait_for_indexing of the FT.INFO engines: after an upload the client    *)
(* polls the server until its index holds every document, through restarts *)
(* and dropped connections, within a budget.  Time is counted in ticks.    *)
(* The server is external: it learns of the documents and builds its index *)
(* in the background, goes down and comes back, and reports its progress   *)
(* in the dialect of the engine.                                           *)
(***************************************************************************)
EXTENDS Integers

CONSTANTS
  Dialects,    \* engines checked
  Expected,    \* documents uploaded
  Floor,       \* engine floor of the budget
  DocsPerTick, \* documents per extra tick of budget
  Overrides,   \* INDEXING_WAIT_SECS; 0 is unset
  Window,      \* RECONNECT_WINDOW
  PollSleep, RetrySleep,   \* the two sleeps of the loop
  Lateness     \* how late a poll may come

\* "uncounted" speaks the RediSearch dialect and reports no num_docs.
AllDialects ==
  {"redis", "uncounted", "valkey", "dragonfly", "kividb_hnsw", "kividb_flat"}

ASSUME WaitAssumption ==
  /\ Dialects \subseteq AllDialects /\ Overrides \subseteq Nat
  /\ {Expected, Floor, Window, PollSleep, RetrySleep, DocsPerTick} \subseteq Nat \ {0}
  /\ Lateness \in Nat

VARIABLES
  dialect, override,   \* the inputs
  known, built,        \* documents the server counts, and has indexed
  compacting,          \* KiviDB's tombstone compaction
  server,              \* "up", "down", or "lost": up without the index
  connected,           \* the poller's connection is alive
  now, wakeAt,         \* the clock, and when the next poll is due
  outageSince,         \* TransientRetry.outage_since, or -1
  outcome,             \* "waiting", "ok", "expired", "unreachable", "error", "hung"
  lastAnswer,          \* history: when a poll was last answered
  builtAtOk            \* history: the index was complete when Ok was returned

serverVars == <<known, built, compacting, server, connected>>
waitVars == <<dialect, override, serverVars, now, wakeAt, outageSince, outcome,
          lastAnswer, builtAtOk>>

\* KiviDB stores and indexes inside the HSET the upload waited for.
Synchronous == dialect \in {"kividb_hnsw", "kividb_flat"}

WaitInit ==
  /\ dialect \in Dialects /\ override \in Overrides
  /\ \/ Synchronous /\ known = Expected /\ built = Expected
     \/ ~Synchronous /\ known \in 0..Expected /\ built = 0
  /\ compacting \in (IF dialect = "kividb_hnsw" THEN BOOLEAN ELSE {FALSE})
  /\ server = "up" /\ connected = TRUE
  /\ now = 0 /\ wakeAt = 0 /\ outageSince = -1
  /\ outcome = "waiting" /\ lastAnswer = 0 /\ builtAtOk = TRUE

-----------------------------------------------------------------------------
\* The server.

LearnDocument ==
  /\ server = "up" /\ known < Expected /\ known' = known + 1
  /\ UNCHANGED <<built, compacting, server, connected>>

Build ==
  /\ server = "up" /\ built < known /\ built' = built + 1
  /\ UNCHANGED <<known, compacting, server, connected>>

Compacted ==
  /\ compacting /\ compacting' = FALSE
  /\ UNCHANGED <<known, built, server, connected>>

GoDown ==
  /\ server = "up" /\ server' = "down" /\ connected' = FALSE
  /\ UNCHANGED <<known, built, compacting>>

\* It comes back as it was, to rebuild from its documents, or without the index.
ComeBack ==
  /\ server = "down"
  /\ \/ server' = "up" /\ built' \in (IF Synchronous THEN {built} ELSE {0, built})
     \/ server' = "lost" /\ built' = 0
  /\ UNCHANGED <<known, compacting, connected>>

Server ==
  /\ outcome = "waiting"
  /\ LearnDocument \/ Build \/ Compacted \/ GoDown \/ ComeBack
  /\ UNCHANGED <<dialect, override, now, wakeAt, outageSince, outcome, lastAnswer, builtAtOk>>

-----------------------------------------------------------------------------
\* The client.

\* budget: the override, or the floor plus a slope.
Budget == IF override > 0 THEN override ELSE Floor + Expected \div DocsPerTick

\* The reply's fields in each dialect: a count, or -1 where it is absent.
\* RediSearch calls itself idle while it has not noticed documents it has yet
\* to index.
NumDocs == IF dialect \in {"kividb_flat", "uncounted"} THEN -1 ELSE known
HnswLiveCount == IF dialect = "kividb_hnsw" THEN built ELSE -1
Indexing == dialect \in {"redis", "uncounted", "dragonfly"} /\ built < known
PercentIndexedFull == dialect \in {"redis", "uncounted", "dragonfly"} => built = known
State == IF dialect # "valkey" THEN "absent"
         ELSE IF built = known THEN "ready" ELSE "backfill_in_progress"

\* ft_info_ready, with use_state for Valkey.
FtInfoReady ==
  /\ NumDocs >= Expected /\ ~Indexing /\ PercentIndexedFull
  /\ State \in {"absent", "ready"}

OrElse(a, b) == IF a # -1 THEN a ELSE b

\* kividb_ready: by the algorithm's own signal; FLAT without a count is ready.
KividbReady ==
  \/ dialect = "kividb_hnsw" /\ OrElse(HnswLiveCount, NumDocs) >= Expected /\ ~compacting
  \/ dialect = "kividb_flat" /\ LET n == OrElse(NumDocs, HnswLiveCount)
                                IN  n = -1 \/ n >= Expected

Ready == IF Synchronous THEN KividbReady ELSE FtInfoReady

\* Without num_docs the wait cannot know, and fails at once.
Unknowable == ~Synchronous /\ NumDocs = -1

Answered == server = "up" /\ connected

Finish(how) == outcome' = how /\ UNCHANGED wakeAt

\* verdict: the index is incomplete and the budget is spent.
Spent == now > Budget

\* TransientRetry::on_success.
OnSuccess == outageSince' = -1

PollAnswered ==
  /\ Answered
  /\ OnSuccess /\ lastAnswer' = now
  /\ CASE Unknowable -> Finish("error")
       [] ~Unknowable /\ Ready -> Finish("ok")
       [] ~Unknowable /\ ~Ready /\ Spent -> Finish("expired")
       [] OTHER -> wakeAt' = now + PollSleep /\ UNCHANGED outcome
  /\ builtAtOk' = (outcome' = "ok" => built = Expected /\ known = Expected /\ ~compacting)
  /\ UNCHANGED connected

Since == IF outageSince = -1 THEN now ELSE outageSince

\* TransientRetry::on_transient, then the longer sleep.
OnTransient ==
  /\ outageSince' = Since
  /\ IF now - Since > Window \/ now >= Budget THEN Finish("unreachable")
     ELSE wakeAt' = now + RetrySleep /\ UNCHANGED outcome

\* Only Redis rides out a dropped connection: it reconnects if it can.
PollDropped ==
  /\ ~connected
  /\ IF dialect \in {"redis", "uncounted"}
     THEN OnTransient /\ connected' = (server # "down" /\ outcome' = "waiting")
     ELSE Finish("error") /\ UNCHANGED <<outageSince, connected>>
  /\ UNCHANGED <<lastAnswer, builtAtOk>>

\* FT.INFO on an index that is gone is no transient error.
PollLost ==
  /\ server = "lost" /\ connected
  /\ Finish("error")
  /\ UNCHANGED <<connected, outageSince, lastAnswer, builtAtOk>>

PollOnce ==
  /\ outcome = "waiting" /\ now >= wakeAt
  /\ PollAnswered \/ PollDropped \/ PollLost
  /\ UNCHANGED <<dialect, override, known, built, compacting, server, now>>

\* A standalone Redis connection has no read timeout: a poll that is never
\* answered never ends, and no deadline is looked at.
PollHangs ==
  /\ outcome = "waiting" /\ now >= wakeAt /\ dialect \in {"redis", "uncounted"}
  /\ Finish("hung")
  /\ UNCHANGED <<dialect, override, serverVars, now, outageSince, lastAnswer, builtAtOk>>

Tick ==
  /\ outcome = "waiting" /\ now < wakeAt + Lateness
  /\ now' = now + 1
  /\ UNCHANGED <<dialect, override, serverVars, wakeAt, outageSince, outcome,
                 lastAnswer, builtAtOk>>

WaitOver == outcome # "waiting" /\ UNCHANGED waitVars

WaitNext == Server \/ PollOnce \/ PollHangs \/ Tick \/ WaitOver

\* The clock runs and the polling thread is scheduled, unless it hangs; the
\* server owes nothing.
WaitSpec == WaitInit /\ [][WaitNext]_waitVars /\ WF_waitVars(Tick) /\ WF_waitVars(PollOnce)

-----------------------------------------------------------------------------
\* Properties.

WaitTypeOK ==
  /\ known \in 0..Expected /\ built \in 0..known
  /\ server \in {"up", "down", "lost"} /\ connected \in BOOLEAN
  /\ now \in Nat /\ wakeAt \in Nat /\ outageSince \in -1..now /\ lastAnswer \in 0..now
  /\ outcome \in {"waiting", "ok", "expired", "unreachable", "error", "hung"}
  /\ outcome = "waiting" => now <= wakeAt + Lateness

\* #361: Ok is returned only over an index that holds, indexed, every document
\* of the upload, in every dialect, restarts included.
OkMeansBuilt == outcome = "ok" => builtAtOk

\* A blip never ends a wait: Redis gives up on a server only when no poll was
\* answered for longer than the window, or when the budget is spent.
NoPrematureGiveUp ==
  outcome = "unreachable" => now - lastAnswer > Window \/ now >= Budget

=============================================================================
