--------------------------- MODULE StreamCheckpoint ---------------------------
(***************************************************************************)
(* The `stream` command: trades arrive from Horizon over SSE, each goes    *)
(* through the idempotency store, is added to its wallet's rolling window  *)
(* and scored, and the Horizon cursor is checkpointed together with the    *)
(* windows in one SQLite transaction (cli.py stream,                       *)
(* ingestion/horizon_streamer.py, ingestion/stream_checkpoint.py,          *)
(* ingestion/dedup.py, detection/rolling_window.py).                       *)
(*                                                                         *)
(* Trade number t is the t-th trade Horizon publishes and t is its paging  *)
(* token.  A window is abstracted to how often it counts each trade; the   *)
(* age-based eviction that rolling_window.py applies alike before and      *)
(* after a restart is left out.  The idempotency store is on, as it is by  *)
(* default (settings.ingestion_dedup_enabled).                             *)
(***************************************************************************)
EXTENDS Integers, FiniteSets

CONSTANTS
    MaxTrades,      \* bound: trades Horizon publishes
    MaxExits,       \* bound: exits of the process that no signal asked for
    MaxEvents,      \* FlushPolicy.max_events
    Threshold,      \* HORIZON_FAILURE_THRESHOLD
    Redis,          \* TRUE: idempotency keys live in Redis and survive the process
    MaxSignals,     \* bound: SIGTERMs and SIGINTs
    MaxFailedWrites \* bound: checkpoint transactions that fail in a row

ASSUME BoundsAssumption == MaxTrades \in Nat /\ MaxExits \in Nat /\ MaxSignals \in Nat /\ MaxFailedWrites \in Nat
ASSUME PolicyAssumption == MaxEvents \in Nat \ {0} /\ Threshold \in Nat \ {0, 1}
ASSUME KindAssumption == Redis \in BOOLEAN

Trades == 1 .. MaxTrades
Now == -1       \* the cursor "now"
None == -2      \* no checkpoint
Tokens == Now .. MaxTrades

VARIABLES
    head,           \* trades Horizon has published
    stale,          \* trades up to this one are older than the replay window
    legacy,         \* the legacy JSON file: None, or 0, the cursor before the first trade
    row,            \* the paging token in stream_checkpoint, or None
    saved,          \* rolling_window_checkpoints: [Trades -> how often counted]
    pc,             \* where the streaming loop is; "down": no process
    link,           \* an SSE connection is open
    pos,            \* the last trade the server sent on the connection
    cursor,         \* the streamer's cursor
    last,           \* last_cursor of the command's loop
    window,         \* the in-memory windows
    seen,           \* keys in the idempotency store
    events,         \* _events_since_flush
    fails,          \* failure_count of horizon_circuit
    stop,           \* stop_event
    rejected,       \* history: trades refused as replays
    gap,            \* history: trades jumped over by connecting at "now"
    missed,         \* history: checkpoint transactions failed since the last success
    exits,          \* exits of the process so far, within MaxExits
    signals         \* signals so far, within MaxSignals

durable == <<legacy, row, saved, missed>>
process == <<pc, link, pos, cursor, last, window, events, fails, stop>>
horizon == <<head, stale>>
history == <<rejected, gap>>
budgets == <<exits, signals>>
vars == <<horizon, durable, process, seen, history, budgets>>

TypeOK ==
    /\ head \in 0 .. MaxTrades /\ stale \in 0 .. MaxTrades
    /\ legacy \in {None, 0} /\ row \in {None} \cup Tokens
    /\ saved \in [Trades -> Nat] /\ window \in [Trades -> Nat]
    /\ pc \in {"down", "idle", "yielded", "added", "resume"}
    /\ link \in BOOLEAN /\ stop \in BOOLEAN
    /\ pos \in Tokens /\ cursor \in Tokens /\ last \in Tokens
    /\ pc \in {"yielded", "added", "resume"} => cursor \in Trades
    /\ seen \subseteq Trades /\ rejected \subseteq Trades /\ gap \subseteq Trades
    /\ events \in Nat /\ fails \in 0 .. Threshold - 1
    /\ missed \in 0 .. MaxFailedWrites /\ exits \in 0 .. MaxExits
    /\ signals \in 0 .. MaxSignals

NoTrades == [t \in Trades |-> 0]

Init ==
    /\ head = 0 /\ stale = 0
    /\ legacy \in {None, 0} /\ row = None /\ saved = NoTrades /\ missed = 0
    /\ pc = "down" /\ link = FALSE /\ pos = Now /\ cursor = Now /\ last = Now
    /\ window = NoTrades /\ seen = {} /\ events = 0 /\ fails = 0 /\ stop = FALSE
    /\ rejected = {} /\ gap = {} /\ exits = 0 /\ signals = 0

-----------------------------------------------------------------------------
(* Horizon and the clock. *)

Publish ==
    /\ head < MaxTrades
    /\ head' = head + 1
    /\ UNCHANGED <<stale, durable, process, seen, history, budgets>>

\* Published trades grow older than IDEMPOTENCY_REPLAY_WINDOW_SECONDS.
Age ==
    /\ stale < head
    /\ stale' = stale + 1
    /\ UNCHANGED <<head, durable, process, seen, history, budgets>>

-----------------------------------------------------------------------------
(* Checkpointing. *)

\* Mutant: the cursor is committed and the windows are not.
Flush_CursorOnly(c, w) ==
    /\ row' = c /\ missed' = 0
    /\ UNCHANGED <<legacy, saved>>

\* Mutant: the windows are committed and the cursor is not.
Flush_WindowsOnly(c, w) ==
    /\ saved' = w /\ missed' = 0
    /\ UNCHANGED <<legacy, row>>

\* flush: one BEGIN IMMEDIATE transaction for the cursor and every window.  A
\* failed write is rolled back, logged and swallowed.
Flush(c, w) ==
    \/ /\ row' = c /\ saved' = w /\ missed' = 0
       /\ UNCHANGED legacy
    \/ /\ missed < MaxFailedWrites
       /\ missed' = missed + 1
       /\ UNCHANGED <<legacy, row, saved>>

MustFlush_Over == events >= MaxEvents

\* FlushPolicy.should_flush by count.  The elapsed-time limit may be met at any trade.
MustFlush == events + 1 >= MaxEvents

\* on_trade_processed: count the trade; when the policy fires, flush and reset the
\* counter whether or not the write succeeded.
OnTradeProcessed ==
    \/ Flush(cursor, window) /\ events' = 0
    \/ /\ ~MustFlush
       /\ events' = events + 1
       /\ UNCHANGED durable

-----------------------------------------------------------------------------
(* The process. *)

\* The process is gone, and its memory with it.
Down ==
    /\ pc' = "down" /\ link' = FALSE /\ stop' = FALSE
    /\ pos' = Now /\ cursor' = Now /\ last' = Now
    /\ window' = NoTrades /\ events' = 0 /\ fails' = 0

\* load_cursor: the unified row, else the legacy file; None becomes "now".
Stored == IF row # None THEN row ELSE IF legacy # None THEN legacy ELSE Now

\* The command starts: it loads windows and cursor.  The in-process idempotency
\* store and the circuit start empty.
Start ==
    /\ pc = "down"
    /\ pc' = "idle" /\ link' = FALSE /\ stop' = FALSE /\ events' = 0 /\ fails' = 0
    /\ window' = saved
    /\ cursor' = Stored /\ last' = Stored /\ pos' = Stored
    /\ seen' = IF Redis THEN seen ELSE {}
    /\ UNCHANGED <<horizon, durable, history, budgets>>

\* stream --reset-cursor deletes the legacy file and the row, and leaves the windows.
StartReset ==
    /\ pc = "down" /\ (legacy # None \/ row # None)
    /\ legacy' = None /\ row' = None
    /\ pc' = "idle" /\ link' = FALSE /\ stop' = FALSE /\ events' = 0 /\ fails' = 0
    /\ window' = saved
    /\ cursor' = Now /\ last' = Now /\ pos' = Now
    /\ seen' = IF Redis THEN seen ELSE {}
    /\ UNCHANGED <<horizon, saved, missed, history, budgets>>

\* The SSE connection opens at the cursor; "now" means after the newest trade.
Connect ==
    /\ pc = "idle" /\ ~link
    /\ link' = TRUE
    /\ pos' = IF cursor = Now THEN head ELSE cursor
    /\ gap' = IF cursor = Now THEN gap \cup {t \in Trades : last < t /\ t <= head} ELSE gap
    /\ UNCHANGED <<horizon, durable, pc, cursor, last, window, events, fails, stop, seen,
                   rejected, budgets>>

\* Horizon answers 404 or 410: the legacy file is deleted and the streamer goes on
\* from "now".  The row in stream_checkpoint stays.
CursorGone ==
    /\ pc = "idle" /\ ~link /\ cursor # Now
    /\ legacy' = None
    /\ cursor' = Now
    /\ UNCHANGED <<horizon, row, saved, missed, pc, link, pos, last, window, events, fails, stop,
                   seen, history, budgets>>

\* is_duplicate: too old; known; or new, and then registered at once, before the
\* trade is processed.  A new trade counts as a success of the circuit and is yielded.
Admit(t) ==
    \/ /\ t <= stale
       /\ rejected' = rejected \cup {t}
       /\ UNCHANGED <<pc, fails, seen>>
    \/ /\ t > stale /\ t \in seen
       /\ UNCHANGED <<pc, fails, seen, rejected>>
    \/ /\ t > stale /\ t \notin seen
       /\ seen' = seen \cup {t} /\ fails' = 0 /\ pc' = "yielded"
       /\ UNCHANGED rejected

\* Mutant: an event is handed over only when the one after it has arrived.
Available_Buffered == pos + 1 < head

\* The client has an event the streamer has not seen.
Available == pos < head

\* The next event of the connection: the streamer's cursor moves past it in any case.
Deliver ==
    /\ pc = "idle" /\ link /\ Available
    /\ pos' = pos + 1 /\ cursor' = pos + 1
    /\ Admit(pos + 1)
    /\ UNCHANGED <<horizon, durable, link, last, window, events, stop, gap, budgets>>

\* score_on_trade adds the trade to the window, then scores.
AddTrade ==
    /\ pc = "yielded" /\ ~stop
    /\ window' = [window EXCEPT ![cursor] = @ + 1]
    /\ pc' = "added"
    /\ UNCHANGED <<horizon, durable, link, pos, cursor, last, events, fails, stop, seen, history,
                   budgets>>

\* The rest of the loop's body: last_cursor, then the checkpoint by policy.
Advance ==
    /\ pc = "added"
    /\ last' = cursor
    /\ OnTradeProcessed
    /\ pc' = "resume"
    /\ UNCHANGED <<horizon, link, pos, cursor, window, fails, stop, seen, history, budgets>>

\* The streamer's `except Exception`.  The connection may fail at any time; and
\* resuming after a yield always comes here, because IdempotencyKeyStore has no
\* mark_seen.  At the threshold the circuit opens and CircuitOpenError ends the
\* command without a final checkpoint.
Fail ==
    /\ pc = "resume" \/ pc = "idle"
    /\ \/ /\ fails + 1 < Threshold
          /\ pc' = "idle" /\ link' = FALSE /\ fails' = fails + 1
          /\ UNCHANGED <<pos, cursor, last, window, events, stop, exits>>
       \/ /\ fails + 1 >= Threshold /\ exits < MaxExits
          /\ Down
          /\ exits' = exits + 1
    /\ UNCHANGED <<horizon, durable, seen, history, signals>>

\* The final checkpoint on a clean exit: the SSE stream ended, or the first trade
\* after a signal reached the test of stop_event.
CleanExit ==
    /\ \/ pc = "idle" /\ link /\ exits < MaxExits /\ exits' = exits + 1
       \/ pc = "yielded" /\ stop /\ UNCHANGED exits
    /\ Flush(last, window)
    /\ Down
    /\ UNCHANGED <<horizon, seen, history, signals>>

\* _shutdown, the signal handler: it runs between two steps of the loop.
Shutdown ==
    /\ pc # "down" /\ ~stop /\ signals < MaxSignals
    /\ signals' = signals + 1
    /\ Flush(last, window)
    /\ stop' = TRUE
    /\ UNCHANGED <<horizon, pc, link, pos, cursor, last, window, events, fails, seen, history,
                   exits>>

\* The process is killed, or scoring raises.
Crash ==
    /\ pc # "down" /\ exits < MaxExits
    /\ exits' = exits + 1
    /\ Down
    /\ UNCHANGED <<horizon, durable, seen, history, signals>>

Next ==
    \/ Publish \/ Age
    \/ Start \/ StartReset \/ Connect \/ CursorGone
    \/ Deliver \/ AddTrade \/ Advance \/ Fail
    \/ CleanExit \/ Shutdown \/ Crash

Spec == Init /\ [][Next]_vars

\* A supervisor restarts the command, its loop runs, and Horizon answers and delivers.
Fairness ==
    /\ WF_vars(Start) /\ WF_vars(Connect) /\ WF_vars(AddTrade) /\ WF_vars(Advance)
    /\ WF_vars(pc = "resume" /\ Fail) /\ WF_vars(pc = "yielded" /\ CleanExit)
    /\ WF_vars(Deliver)

FairSpec == Spec /\ Fairness

-----------------------------------------------------------------------------
(* Properties. *)

\* Trade t is counted in the windows w, or was deliberately not counted.
Covered(t, w) == w[t] > 0 \/ t \in rejected \/ t \in gap

\* "The cursor can never be durably ahead of the window state it depends on"
\* (ingestion/stream_checkpoint.py): every trade up to the durable token is in the
\* durable windows, unless it was refused as a replay or lay before "now".
TokenBehindWindow == \A t \in Trades : t <= row => Covered(t, saved)

\* A crash and a replay never make a window count a trade twice, in memory or on
\* disk: the two halves of a checkpoint are of the same moment.  A signal is the
\* exception: its handler may run after score_on_trade has added a trade and before
\* last_cursor is set, and saves windows that are ahead of the cursor.
EachTradeOnce == signals = 0 => \A t \in Trades : window[t] <= 1 /\ saved[t] <= 1

\* Trades a crash would take out of the windows.
Unsaved == {t \in Trades : pc # "down" /\ window[t] > saved[t]}

\* The durability window is bounded by the flush policy (docs/ingestion.md), one
\* more interval for every checkpoint that failed to be written.
LossIsBounded == Cardinality(Unsaved) <= (missed + 1) * MaxEvents

\* Whatever crashes, reconnects and restarts happen, every published trade ends in
\* the windows or is accounted for as a replay or as lying before "now".
EveryTradeCounted == \A t \in Trades : (t <= head) ~> (pc # "down" /\ Covered(t, window))
=============================================================================
