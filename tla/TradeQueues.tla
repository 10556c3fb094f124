----------------------------- MODULE TradeQueues ----------------------------
(*****************************************************************************)
(* What lies between a source and the windows: the intake of the live        *)
(* streamer, the dead letters of trades and the filters.                     *)
(*****************************************************************************)
EXTENDS Integers, Sequences, FiniteSets, SequencesExt

-----------------------------------------------------------------------------
(***************************************************************************)
(* ingestion/horizon_streamer.py, class HorizonStreamer: the asyncio       *)
(* producer that reads trades from Horizon, checkpoints the cursor and     *)
(* hands the trades to a bounded queue.  Every await is a place where the  *)
(* consumer of the queue runs, so one loop iteration is three actions:     *)
(* Receive up to the back-pressure sleep, Throttle, Put.                   *)
(*                                                                         *)
(* Trade t is the t-th trade Horizon publishes and its paging token.  The  *)
(* length of the back-pressure sleep and of the token bucket's waits is    *)
(* left out: both only delay.                                              *)
(***************************************************************************)

CONSTANTS IntakeMaxTrades,    \* bound: trades Horizon publishes
          Depth,        \* queue maxsize
          IntakeMaxEvents,    \* FlushPolicy.max_events
          MaxExits      \* bound: exits of the process

IntakeTrades == 1 .. IntakeMaxTrades
Now == -1       \* the cursor "now"
IntakeNone == -2      \* no checkpoint file, or one that cannot be read

VARIABLES
    strategy,   \* overflow strategy, fixed when the queue is built
    dedup,      \* settings.ingestion_dedup_enabled
    bad,        \* trades whose record _parse_trade refuses
    head,       \* trades published so far
    intakePc,         \* "down", "idle", "throttle", "put", or "ended": run() is over
    running,    \* _running
    link, pos,  \* an SSE connection is open; the last trade sent on it
    intakeCursor,     \* _cursor
    saved,      \* the cursor in the checkpoint file
    events,     \* _events_since_flush
    hand,       \* the trade being enqueued, 0 when there is none
    queue,      \* BoundedTradeQueue
    seen,       \* keys in the in-memory idempotency store
    taken,      \* trades the consumer got
    dropped,    \* trades counted in events_dropped
    excused,    \* trades refused as replays or jumped over by starting at "now"
    abandoned,  \* history: trades that went down with the process
    exits       \* exits so far, within MaxExits

fixed == <<strategy, dedup, bad>>
loop == <<intakePc, running, link, pos, intakeCursor, events, hand>>
fate == <<taken, dropped, excused, abandoned>>
intakeVars == <<fixed, head, loop, saved, queue, seen, fate, exits>>

IntakeTypeOK ==
    /\ strategy \in {"block", "drop_newest", "drop_oldest"} /\ dedup \in BOOLEAN
    /\ bad \subseteq IntakeTrades /\ head \in 0 .. IntakeMaxTrades
    /\ intakePc \in {"down", "idle", "throttle", "put", "ended"}
    /\ running \in BOOLEAN /\ link \in BOOLEAN
    /\ pos \in 0 .. IntakeMaxTrades /\ intakeCursor \in Now .. IntakeMaxTrades
    /\ saved \in IntakeNone .. IntakeMaxTrades /\ events \in 0 .. IntakeMaxEvents
    /\ hand \in 0 .. IntakeMaxTrades /\ queue \in Seq(IntakeTrades) /\ Len(queue) <= Depth
    /\ \A S \in {seen, taken, dropped, excused, abandoned} : S \subseteq IntakeTrades
    /\ exits \in 0 .. MaxExits

IntakeInit ==
          /\ strategy \in {"block", "drop_newest", "drop_oldest"} /\ dedup \in BOOLEAN
          /\ bad \in {{}, {2}} /\ head = 0 /\ intakePc = "down" /\ running = FALSE
          /\ link = FALSE /\ pos = 0 /\ intakeCursor = Now /\ saved \in {IntakeNone, 0}
          /\ events = 0 /\ hand = 0 /\ queue = <<>> /\ exits = 0
          /\ seen = {} /\ taken = {} /\ dropped = {} /\ excused = {} /\ abandoned = {}

-----------------------------------------------------------------------------
Publish == /\ head < IntakeMaxTrades /\ head' = head + 1
           /\ UNCHANGED <<fixed, loop, saved, queue, seen, fate, exits>>

\* HorizonStreamer(): cursor from the checkpoint, or the default "now".
IntakeStart ==
    /\ intakePc = "down"
    /\ intakePc' = "idle" /\ running' = TRUE
    /\ intakeCursor' \in IF saved = IntakeNone THEN {Now} ELSE {saved, Now}  \* load() may fail
    /\ UNCHANGED <<fixed, head, link, pos, events, hand, saved, queue, seen, fate, exits>>

\* _connect succeeds: Horizon streams what follows the cursor.
Connect ==
    /\ intakePc = "idle" /\ running /\ ~link
    /\ link' = TRUE
    /\ pos' = IF intakeCursor = Now THEN head ELSE intakeCursor
    /\ excused' = excused \cup (IF intakeCursor = Now THEN 1 .. head ELSE {})
    /\ UNCHANGED <<fixed, head, intakePc, running, intakeCursor, events, hand, saved, queue,
                   seen, taken, dropped, abandoned, exits>>

\* 404 or 410: Horizon pruned the cursor, the checkpoint is deleted.
CursorGone ==
    /\ intakePc = "idle" /\ running /\ ~link /\ intakeCursor # Now
    /\ saved' = IntakeNone /\ intakeCursor' = Now
    /\ UNCHANGED <<fixed, head, intakePc, running, link, pos, events, hand, queue, seen, fate, exits>>

\* save() leaves the new cursor or, when the file cannot be written, the old
\* one; it tells nobody, and the counter starts again either way.
Saved(c) == saved' \in {c, saved}

\* _flush_checkpoint in run()'s finally clause.
RunEnds ==
    /\ intakePc' = "ended" /\ link' = FALSE
    /\ IF events > 0 THEN Saved(intakeCursor) ELSE UNCHANGED saved
    /\ events' = 0

\* Another status than 404 and 410, or one of them at "now", is raised.
ConnectRefused ==
    /\ intakePc = "idle" /\ running /\ ~link
    /\ RunEnds
    /\ UNCHANGED <<fixed, head, running, pos, intakeCursor, hand, queue, seen, fate, exits>>

\* TransportError: wait and connect again.
LinkBreaks ==
    /\ intakePc = "idle" /\ link /\ link' = FALSE
    /\ UNCHANGED <<fixed, head, intakePc, running, pos, intakeCursor, events, hand, saved,
                   queue, seen, fate, exits>>

\* stop(), seen at the next line or the next turn of the reconnect loop.
IntakeStop ==
          /\ intakePc \notin {"down", "ended"} /\ running /\ running' = FALSE
          /\ UNCHANGED <<fixed, head, intakePc, link, pos, intakeCursor, events, hand, saved, queue, seen, fate, exits>>

StopSeen ==
    /\ intakePc = "idle" /\ ~running /\ (link => pos < head)
    /\ RunEnds
    /\ UNCHANGED <<fixed, head, running, pos, intakeCursor, hand, queue, seen, fate, exits>>

\* _record_processed_event: by count or by age, the checkpoint is written
\* before the trade is in the queue.
RecordProcessed(t) ==
    /\ intakeCursor' = t
    /\ \/ events + 1 < IntakeMaxEvents /\ events' = events + 1 /\ UNCHANGED saved
       \/ events' = 0 /\ Saved(t)

\* A record of the stream: parsed, looked up, recorded.
Receive ==
    /\ intakePc = "idle" /\ running /\ link /\ pos < head
    /\ pos' = pos + 1
    /\ UNCHANGED <<fixed, head, running, link, queue, taken, dropped, abandoned, exits>>
    /\ LET t == pos + 1 IN
       \/ t \in bad /\ UNCHANGED <<intakePc, intakeCursor, events, hand, saved, seen, excused>>
       \/ /\ t \notin bad /\ RecordProcessed(t)
          /\ \/ dedup /\ t \in seen /\ UNCHANGED <<intakePc, hand, seen, excused>>
             \/ /\ dedup /\ excused' = excused \cup {t}     \* older than the replay window
                /\ UNCHANGED <<intakePc, hand, seen>>
             \/ /\ ~dedup \/ t \notin seen
                /\ seen' = IF dedup THEN seen \cup {t} ELSE seen
                /\ hand' = t /\ intakePc' = "throttle" /\ UNCHANGED excused

\* _maybe_throttle: the consumer runs while the producer sleeps.
Throttle == /\ intakePc = "throttle" /\ intakePc' = "put"
            /\ UNCHANGED <<fixed, head, running, link, pos, intakeCursor, events, hand,
                           saved, queue, seen, fate, exits>>

Full == Len(queue) = Depth

\* Mutant: the evicted trade is not counted.
Enqueue_Silent(t) ==
    \/ ~Full /\ queue' = Append(queue, t) /\ UNCHANGED dropped
    \/ strategy = "drop_newest" /\ Full /\ UNCHANGED queue /\ dropped' = dropped \cup {t}
    \/ strategy = "drop_oldest" /\ Full /\ queue' = Append(Tail(queue), t) /\ UNCHANGED dropped

\* BoundedTradeQueue.put with the counters of _enqueue; "block" waits.
Enqueue(t) ==
    \/ ~Full /\ queue' = Append(queue, t) /\ UNCHANGED dropped
    \/ strategy = "drop_newest" /\ Full /\ UNCHANGED queue /\ dropped' = dropped \cup {t}
    \/ /\ strategy = "drop_oldest" /\ Full
       /\ queue' = Append(Tail(queue), t) /\ dropped' = dropped \cup {Head(queue)}

Accepted == ~Full \/ strategy = "drop_oldest"

\* The end of an iteration.  After an accepted trade run() calls mark_seen,
\* which IdempotencyKeyStore does not have: with the store on, run() ends.
Put ==
    /\ intakePc = "put" /\ Enqueue(hand) /\ hand' = 0
    /\ IF dedup /\ Accepted
         THEN RunEnds
         ELSE intakePc' = "idle" /\ UNCHANGED <<link, events, saved>>
    /\ UNCHANGED <<fixed, head, running, pos, intakeCursor, seen, taken, excused, abandoned, exits>>

\* The consumer; the queue outlives run().
Take ==
    /\ intakePc # "down" /\ queue # <<>>
    /\ taken' = taken \cup {Head(queue)} /\ queue' = Tail(queue)
    /\ UNCHANGED <<fixed, head, loop, saved, seen, dropped, excused, abandoned, exits>>

\* The process exits: queue, keys and the trade in hand go with it.
Exit ==
    /\ intakePc # "down" /\ exits < MaxExits /\ exits' = exits + 1
    /\ intakePc' = "down" /\ running' = FALSE /\ link' = FALSE /\ events' = 0 /\ hand' = 0
    /\ queue' = <<>> /\ seen' = {}
    /\ abandoned' = abandoned \cup ToSet(queue) \cup ({hand} \ {0})
    /\ UNCHANGED <<fixed, head, pos, intakeCursor, saved, taken, dropped, excused>>

IntakeNext == \/ Publish \/ IntakeStart \/ Connect \/ CursorGone \/ ConnectRefused \/ LinkBreaks
              \/ IntakeStop \/ StopSeen \/ Receive \/ Throttle \/ Put \/ Take \/ Exit

IntakeSpec == IntakeInit /\ [][IntakeNext]_intakeVars
-----------------------------------------------------------------------------
Handled == taken \cup dropped \cup excused \cup bad \cup abandoned
           \cup ToSet(queue) \cup {hand}

(* The checkpoint is written before the queue has the trade.  Even so every *)
(* trade behind it was taken, waits in the queue or in hand, is counted as *)
(* dropped, was refused or jumped over, or went down with a process, and   *)
(* an exit takes no more than the queue and the one trade in hand.         *)
BehindCheckpointIsAccounted ==
    /\ 1 .. saved \subseteq Handled
    /\ Cardinality(abandoned) <= (Depth + 1) * exits

-----------------------------------------------------------------------------
(***************************************************************************)
(* ingestion/dlq.py: the dead_letter_queue table of trade ingestion and    *)
(* the trade-dlq command.  Every statement commits on its own, so a replay *)
(* is a read, a handler call and a write between which other operators'    *)
(* replays run, and a quarantine is an insert and an update.               *)
(***************************************************************************)

CONSTANTS LetterReplayers,    \* operators that run trade-dlq replay
          MaxEntries,   \* bound: rows
          MaxFailures,  \* max_replay_failures
          MaxCrashes    \* bound: processes that die between two statements

Entries == 1 .. MaxEntries

VARIABLES
    row,        \* row[e]: [status, failures]; "none" before the insert
    asked,      \* rows the source wanted quarantined
    filing,     \* the row whose quarantine update is due, 0 for none
    doing,      \* doing[r]: [step, entry] of replayer r
    handled,    \* history: handled[e]: handler calls that succeeded
    letterFailed,     \* history: failed[e]: handler calls that raised
    alerted,    \* rows an alert was raised for
    crashes

letterVars == <<row, asked, filing, doing, handled, letterFailed, alerted, crashes>>

Status == {"none", "pending", "replayed", "dead", "quarantined"}
Idle == [step |-> "idle", entry |-> 0]

LetterTypeOK ==
    /\ row \in [Entries -> [status : Status, failures : Nat]]
    /\ asked \subseteq Entries /\ filing \in {0} \cup Entries
    /\ doing \in [LetterReplayers -> [step : {"idle", "handler", "ok", "raised", "alert"},
                                      entry : {0} \cup Entries]]
    /\ handled \in [Entries -> Nat] /\ letterFailed \in [Entries -> Nat]
    /\ alerted \subseteq Entries /\ crashes \in 0 .. MaxCrashes

LetterInit ==
          /\ row = [e \in Entries |-> [status |-> "none", failures |-> 0]]
          /\ asked = {} /\ filing = 0 /\ doing = [r \in LetterReplayers |-> Idle]
          /\ handled = [e \in Entries |-> 0] /\ letterFailed = [e \in Entries |-> 0]
          /\ alerted = {} /\ crashes = 0

SetStatus(e, s) == row' = [row EXCEPT ![e].status = s]

\* push: the next row, pending.  quarantine pushes first.
Push(e, quarantine) ==
    /\ filing = 0 /\ row[e].status = "none"
    /\ e > 1 => row[e - 1].status # "none"
    /\ SetStatus(e, "pending")
    /\ filing' = IF quarantine THEN e ELSE 0
    /\ asked' = IF quarantine THEN asked \cup {e} ELSE asked
    /\ UNCHANGED <<doing, handled, letterFailed, alerted, crashes>>

\* The second statement of quarantine, and its alert.
FileQuarantine ==
    /\ filing # 0 /\ SetStatus(filing, "quarantined")
    /\ alerted' = alerted \cup {filing} /\ filing' = 0
    /\ UNCHANGED <<asked, doing, handled, letterFailed, crashes>>

\* replay: get() finds a pending row, anything else is skipped.
ReplayGet(r, e) ==
    /\ doing[r] = Idle /\ row[e].status = "pending"
    /\ doing' = [doing EXCEPT ![r] = [step |-> "handler", entry |-> e]]
    /\ UNCHANGED <<row, asked, filing, handled, letterFailed, alerted, crashes>>

\* The handler works on the record; it may raise.
Handler(r) ==
    /\ doing[r].step = "handler"
    /\ LET e == doing[r].entry IN
       \/ /\ doing' = [doing EXCEPT ![r].step = "ok"]
          /\ handled' = [handled EXCEPT ![e] = @ + 1] /\ UNCHANGED letterFailed
       \/ /\ doing' = [doing EXCEPT ![r].step = "raised"]
          /\ letterFailed' = [letterFailed EXCEPT ![e] = @ + 1] /\ UNCHANGED handled
    /\ UNCHANGED <<row, asked, filing, alerted, crashes>>

MarkReplayed(r) ==
    /\ doing[r].step = "ok"
    /\ SetStatus(doing[r].entry, "replayed") /\ doing' = [doing EXCEPT ![r] = Idle]
    /\ UNCHANGED <<asked, filing, handled, letterFailed, alerted, crashes>>

\* Mutant: the failure that reaches the limit is not counted towards it.
AfterFailure_Late(w) ==
    [status |-> IF w.failures >= MaxFailures THEN "quarantined" ELSE w.status,
     failures |-> w.failures + 1]

\* The UPDATE of record_replay_failure, whatever the status has become.
AfterFailure(w) ==
    [status |-> IF w.failures + 1 >= MaxFailures THEN "quarantined" ELSE w.status,
     failures |-> w.failures + 1]

RecordFailure(r) ==
    /\ doing[r].step = "raised"
    /\ row' = [row EXCEPT ![doing[r].entry] = AfterFailure(@)]
    /\ doing' = [doing EXCEPT ![r].step = "alert"]
    /\ UNCHANGED <<asked, filing, handled, letterFailed, alerted, crashes>>

\* The row is read again and an alert raised if it is quarantined by now.
AlertIfQuarantined(r) ==
    /\ doing[r].step = "alert" /\ doing' = [doing EXCEPT ![r] = Idle]
    /\ alerted' = IF row[doing[r].entry].status = "quarantined"
                    THEN alerted \cup {doing[r].entry} ELSE alerted
    /\ UNCHANGED <<row, asked, filing, handled, letterFailed, crashes>>

\* mark_dead has no condition.
MarkDead(e) ==
    /\ row[e].status # "none" /\ filing # e /\ SetStatus(e, "dead")
    /\ UNCHANGED <<asked, filing, doing, handled, letterFailed, alerted, crashes>>

LetterCrash ==
    /\ crashes < MaxCrashes /\ crashes' = crashes + 1
    /\ \/ \E r \in LetterReplayers : doing[r] # Idle /\ doing' = [doing EXCEPT ![r] = Idle]
          /\ UNCHANGED filing
       \/ filing # 0 /\ filing' = 0 /\ UNCHANGED doing
    /\ UNCHANGED <<row, asked, handled, letterFailed, alerted>>

LetterNext ==
          \/ \E e \in Entries, q \in BOOLEAN : Push(e, q)
          \/ FileQuarantine
          \/ \E r \in LetterReplayers : \/ \E e \in Entries : ReplayGet(r, e)
                                        \/ Handler(r) \/ MarkReplayed(r) \/ RecordFailure(r)
                                        \/ AlertIfQuarantined(r)
          \/ \E e \in Entries : MarkDead(e)
          \/ LetterCrash

LetterSpec == LetterInit /\ [][LetterNext]_letterVars
-----------------------------------------------------------------------------
Reporting(e) == {r \in LetterReplayers : doing[r].entry = e /\ doing[r].step = "raised"}

(* However replays interleave and whichever process dies: a pending row    *)
(* has replays left, no recorded failure is forgotten, "replayed" and      *)
(* "quarantined" each had their reason, and every quarantine has raised    *)
(* its alert unless the process died or is about to raise it.              *)
StatusHasItsReason ==
    \A e \in Entries :
      LET w == row[e] IN
      /\ w.status = "pending" => w.failures < MaxFailures
      /\ w.status = "replayed" => handled[e] > 0
      /\ w.status = "quarantined" => e \in asked \/ w.failures >= MaxFailures
      /\ letterFailed[e] - w.failures - Cardinality(Reporting(e)) \in 0 .. crashes
      /\ w.status = "quarantined" /\ crashes = 0 =>
           e \in alerted \/ \E r \in LetterReplayers : doing[r] = [step |-> "alert", entry |-> e]

-----------------------------------------------------------------------------
(* ingestion/filters.py: a pipeline of trade filters whose configuration     *)
(* file is reloaded by a timer while trades are being filtered, and can be   *)
(* edited or broken at any moment.                                           *)

CONSTANTS
    Configs,    \* valid configurations: sequences of enabled filters
    FilterTrades,     \* trades: [pair, volume, type, account]
    MaxEdits, FilterMaxTrades, MaxTime

VARIABLES
    file,       \* filter_config.yaml: [config, mtime]; Broken does not parse
    loader,     \* the loader's or the timer's step: [pc, mtime, config]
    lastMtime,  \* _last_mtime
    pipe,       \* the pipeline's filters
    timers,     \* timers that will fire
    stopped, lateReloads,
    apply,      \* TradeFilterPipeline.apply: [pc, trade, filters, next]
    verdict,    \* the last one: [trade, passed, filters, by]
    rejections, \* rejection_count of the current filter objects
    edited,     \* the file changed between __init__'s load and its stat
    written,    \* ticks at which the file was written
    edits, trades, now

filterVars == <<file, loader, lastMtime, pipe, timers, stopped, lateReloads, apply, verdict, rejections,
                edited, written, edits, trades, now>>

Broken == <<"broken">>
Zero(config) == [k \in DOMAIN config |-> 0]

\* The filters' apply methods; an empty whitelist and a minimum of 0 let
\* everything through.
Rejects(f, trade) ==
    CASE f.kind = "asset_pair_whitelist" -> f.pairs # {} /\ trade.pair \notin f.pairs
      [] f.kind = "asset_pair_blacklist" -> trade.pair \in f.pairs
      [] f.kind = "minimum_volume" -> f.min > 0 /\ trade.volume < f.min
      [] f.kind = "asset_type" -> \E t \in trade.types : t \notin f.types
      [] f.kind = "account_exclusion" -> \E a \in trade.accounts : a \in f.accounts

FilterTypeOK ==
    /\ file.config \in Configs \cup {Broken} /\ file.mtime \in 0 .. MaxTime
    /\ loader.pc \in {"stat0", "ready", "stat", "load", "swap", "off"} /\ timers \in 0 .. 2
    /\ pipe \in Configs /\ apply.pc \in {"idle", "filter"}

FilterInit ==
          /\ LET c == CHOOSE c \in Configs : TRUE IN
              /\ file = [config |-> c, mtime |-> 0] /\ pipe = c /\ rejections = Zero(c)
              /\ verdict = [trade |-> CHOOSE t \in FilterTrades : TRUE, passed |-> TRUE, filters |-> <<>>, by |-> 0]
          /\ loader = [pc |-> "stat0"]        \* __init__ has just loaded the file
          /\ lastMtime = 0 /\ timers = 0 /\ stopped = FALSE /\ lateReloads = 0
          /\ apply = [pc |-> "idle"] /\ edited = FALSE /\ written = [t \in 0 .. MaxTime |-> IF t = 0 THEN 1 ELSE 0]
          /\ edits = 0 /\ trades = 0 /\ now = 0

----------------------------------------------------------------------------
\* The operator edits the file.
Edit(c) ==
    /\ edits < MaxEdits /\ edits' = edits + 1
    /\ file' = [config |-> c, mtime |-> now] /\ written' = [written EXCEPT ![now] = @ + 1]
    /\ edited' = (edited \/ loader.pc = "stat0")
    /\ UNCHANGED <<loader, lastMtime, pipe, timers, stopped, lateReloads, apply, verdict, rejections, trades, now>>

\* The rest of __init__: the modification time is taken after the load.
FinishInit ==
    /\ loader.pc = "stat0" /\ loader' = [pc |-> "ready"]
    /\ lastMtime' = file.mtime /\ timers' = timers + 1
    /\ UNCHANGED <<file, pipe, stopped, lateReloads, apply, verdict, rejections, edited, written, edits, trades, now>>

\* The timer fires: _check_and_reload stats the file ...
Fire ==
    /\ loader.pc = "ready" /\ timers > 0 /\ timers' = timers - 1
    /\ loader' = IF file.mtime > lastMtime THEN [pc |-> "load", mtime |-> file.mtime]
                                           ELSE [pc |-> "off"]
    /\ UNCHANGED <<file, lastMtime, pipe, stopped, lateReloads, apply, verdict, rejections, edited, written,
                   edits, trades, now>>

\* ... and loads it; a file that does not validate leaves everything as it is.
Load ==
    /\ loader.pc = "load"
    /\ loader' = IF file.config = Broken THEN [pc |-> "off"]
                 ELSE [pc |-> "swap", mtime |-> loader.mtime, config |-> file.config]
    /\ UNCHANGED <<file, lastMtime, pipe, timers, stopped, lateReloads, apply, verdict, rejections, edited,
                   written, edits, trades, now>>

\* The time remembered is the one seen before the load.
StatTime == loader.mtime

\* reload_filters swaps the list under the pipeline's lock.
Swap ==
    /\ loader.pc = "swap" /\ loader' = [pc |-> "off"]
    /\ pipe' = loader.config /\ rejections' = Zero(loader.config) /\ lastMtime' = StatTime
    /\ lateReloads' = IF stopped THEN lateReloads + 1 ELSE lateReloads
    /\ UNCHANGED <<file, timers, stopped, apply, verdict, edited, written, edits, trades, now>>

\* The finally clause: _schedule_next, unless stopped.  A stop that comes
\* between its test and the start of the timer is the second disjunct.
Reschedule ==
    /\ loader.pc = "off" /\ loader' = [pc |-> "ready"]
    /\ \/ ~stopped /\ timers' = timers + 1 /\ UNCHANGED stopped
       \/ ~stopped /\ timers' = timers + 1 /\ stopped' = TRUE
       \/ stopped /\ UNCHANGED <<timers, stopped>>
    /\ UNCHANGED <<file, lastMtime, pipe, lateReloads, apply, verdict, rejections, edited, written, edits,
                   trades, now>>

\* stop: cancels the timer, not a check that is running.
FilterStop ==
          /\ ~stopped /\ loader.pc # "stat0" /\ stopped' = TRUE /\ timers' = 0
          /\ UNCHANGED <<file, loader, lastMtime, pipe, lateReloads, apply, verdict, rejections, edited, written,
                         edits, trades, now>>

----------------------------------------------------------------------------
\* TradeFilterPipeline.apply: the list is copied under the lock ...
Begin(trade) ==
    /\ apply.pc = "idle" /\ trades < FilterMaxTrades /\ trades' = trades + 1
    /\ apply' = [pc |-> "filter", trade |-> trade, filters |-> pipe, next |-> 1]
    /\ UNCHANGED <<file, loader, lastMtime, pipe, timers, stopped, lateReloads, verdict, rejections, edited,
                   written, edits, now>>

\* ... and walked without it; a filter of a replaced list counts for nobody.
Step ==
    LET a == apply
        end == a.next > Len(a.filters)
        out == ~end /\ Rejects(a.filters[a.next], a.trade)
    IN  /\ a.pc = "filter"
        /\ IF end \/ out
           THEN /\ apply' = [pc |-> "idle"]
                /\ verdict' = [trade |-> a.trade, passed |-> end, filters |-> a.filters,
                               by |-> IF end THEN 0 ELSE a.next]
           ELSE apply' = [a EXCEPT !.next = @ + 1] /\ UNCHANGED verdict
        /\ rejections' = IF out /\ a.filters = pipe THEN [rejections EXCEPT ![a.next] = @ + 1] ELSE rejections
        /\ UNCHANGED <<file, loader, lastMtime, pipe, timers, stopped, lateReloads, edited, written, edits,
                       trades, now>>

FilterTick ==
          /\ now < MaxTime /\ now' = now + 1
          /\ UNCHANGED <<file, loader, lastMtime, pipe, timers, stopped, lateReloads, apply, verdict, rejections,
                         edited, written, edits, trades>>

FilterNext ==
          \/ \E c \in Configs \cup {Broken} : Edit(c)
          \/ FinishInit \/ Fire \/ Load \/ Swap \/ Reschedule \/ FilterStop
          \/ (\E t \in FilterTrades : Begin(t)) \/ Step \/ FilterTick

FilterSpec == FilterInit /\ [][FilterNext]_filterVars

----------------------------------------------------------------------------
\* A verdict is the one a single list of filters gives: no trade is judged by
\* half of an old list and half of a new one.
VerdictFitsOneList ==
    LET v == verdict
        hits == {k \in DOMAIN v.filters : Rejects(v.filters[k], v.trade)}
    IN  v.passed = (hits = {}) /\ (hits # {} => v.by \in hits /\ \A k \in hits : v.by <= k)

\* When no reload is due or running, the filters are the file's.
FollowsFile ==
    (loader.pc \in {"ready", "off"} /\ lastMtime = file.mtime /\ file.config # Broken
        /\ ~edited /\ written[file.mtime] <= 1) => pipe = file.config

\* Whatever edits, broken files and reloads fall between the steps of the
\* timer and of a trade, a trade is judged by one whole list, the filters are
\* the file's once its time has been taken note of (unless the file was edited
\* while the loader was being built, or twice within one tick), and after stop
\* at most one more reload happens (FilterConfigLoader, TradeFilterPipeline).
FiltersFollowTheFile == VerdictFitsOneList /\ FollowsFile /\ lateReloads <= 1

=============================================================================
