--------------------------- MODULE IngestionProofs ----------------------------
(***************************************************************************)
(* Streaming ingestion and the ways of events.                             *)
(*                                                                         *)
(* For any number of trades, crashes, signals and failed writes, the       *)
(* durable cursor is never ahead of the durable windows, as long as the    *)
(* idempotency keys do not outlive the process; and for any number of      *)
(* events, tokens, processes and runs no event is lost between the replay  *)
(* buffer, the event bus and the pipeline's storage.                       *)
(***************************************************************************)
EXTENDS StreamCheckpoint, EventFlow, FiniteSetTheorems, WellFoundedInduction, TLAPS

\* Where the streamer stands: an open connection has a position, and a cursor that is
\* not "now" is that position.
Positioned ==
    /\ link => pos >= 0
    /\ cursor \in {Now, pos}
    /\ pc \in {"yielded", "added", "resume"} => cursor = pos

\* The trade the loop has been handed and not yet added to a window.
InFlight(t) == pc = "yielded" /\ t = cursor

\* The loop's own cursor, which every checkpoint writes, is behind its windows.
LastBehindWindow == pc # "down" => \A t \in Trades : t <= last => Covered(t, window)

\* Everything the connection delivered is in the windows, or on its way.
DeliveredIsCovered ==
    pc # "down" => \A t \in Trades : last < t /\ t <= pos => Covered(t, window) \/ InFlight(t)

\* A known key is that of a trade of this process.
SeenIsCounted == pc # "down" => \A t \in seen : window[t] > 0 \/ InFlight(t)

IInv ==
    /\ TypeOK /\ Positioned
    /\ TokenBehindWindow /\ LastBehindWindow /\ DeliveredIsCovered /\ SeenIsCounted

\* The initial state satisfies the inductive invariant.
LEMMA InitIInv == Init => IInv
  <1> SUFFICES ASSUME Init PROVE IInv OBVIOUS
  <1> USE BoundsAssumption, PolicyAssumption, KindAssumption
  <1>1. NoTrades \in [Trades -> Nat] BY DEF NoTrades
  <1>2. link \in BOOLEAN /\ stop \in BOOLEAN /\ ~link BY DEF Init
  <1>3. TypeOK BY <1>1, <1>2 DEF Init, TypeOK, Tokens, Now, None
  <1>4. Positioned BY <1>2 DEF Init, Positioned, Now
  <1>5. TokenBehindWindow BY DEF Init, TokenBehindWindow, Trades, None
  <1> QED BY <1>3, <1>4, <1>5 DEF Init, IInv, LastBehindWindow, DeliveredIsCovered, SeenIsCounted

\* What a checkpoint of a loop cursor and its windows does to the durable state.
LEMMA FlushKeeps ==
    ASSUME TypeOK, TokenBehindWindow, NEW c \in Tokens, NEW w \in [Trades -> Nat],
           \A t \in Trades : t <= c => Covered(t, w),
           Flush(c, w), UNCHANGED history
    PROVE  /\ TokenBehindWindow'
           /\ legacy' \in {None, 0} /\ row' \in {None} \cup Tokens
           /\ saved' \in [Trades -> Nat] /\ missed' \in 0 .. MaxFailedWrites
  <1> USE BoundsAssumption
  <1>1. CASE row' = c /\ saved' = w /\ missed' = 0 /\ UNCHANGED legacy
    BY <1>1 DEF TypeOK, TokenBehindWindow, Covered, history
  <1>2. CASE missed < MaxFailedWrites /\ missed' = missed + 1 /\ UNCHANGED <<legacy, row, saved>>
    BY <1>2 DEF TypeOK, TokenBehindWindow, Covered, history
  <1> QED BY <1>1, <1>2 DEF Flush

\* When the process is gone, only the durable half of the invariant is left.
LEMMA DownKeeps ==
    ASSUME Down, TokenBehindWindow',
           head' \in 0 .. MaxTrades, stale' \in 0 .. MaxTrades,
           legacy' \in {None, 0}, row' \in {None} \cup Tokens,
           saved' \in [Trades -> Nat], missed' \in 0 .. MaxFailedWrites,
           seen' \subseteq Trades, rejected' \subseteq Trades, gap' \subseteq Trades,
           exits' \in 0 .. MaxExits, signals' \in 0 .. MaxSignals
    PROVE  IInv'
  <1> USE BoundsAssumption, PolicyAssumption
  <1>1. /\ pc' = "down" /\ link' = FALSE /\ stop' = FALSE
        /\ pos' = Now /\ cursor' = Now /\ last' = Now
        /\ window' = NoTrades /\ events' = 0 /\ fails' = 0
    BY DEF Down
  <1>2. NoTrades \in [Trades -> Nat] BY DEF NoTrades
  <1>3. link' \in BOOLEAN /\ stop' \in BOOLEAN BY <1>1
  <1>4. TypeOK' BY <1>1, <1>2, <1>3 DEF TypeOK, Tokens, Now
  <1>5. Positioned' BY <1>1 DEF Positioned
  <1> QED BY <1>1, <1>4, <1>5 DEF IInv, LastBehindWindow, DeliveredIsCovered, SeenIsCounted

\* Every step preserves the inductive invariant when keys die with the process.
LEMMA StepIInv == ASSUME ~Redis, IInv, [Next]_vars PROVE IInv'
  <1> USE BoundsAssumption, PolicyAssumption, KindAssumption
  <1>t. TypeOK BY DEF IInv
  <1>1. CASE Publish \/ Age
    BY <1>1 DEF Publish, Age, durable, process, horizon, history, budgets, IInv, TypeOK,
       Positioned, TokenBehindWindow, LastBehindWindow, DeliveredIsCovered, SeenIsCounted,
       InFlight, Covered
  <1>2. CASE Start
    <2>1. /\ pc' = "idle" /\ link' = FALSE /\ stop' = FALSE /\ events' = 0 /\ fails' = 0
          /\ window' = saved /\ cursor' = Stored /\ last' = Stored /\ pos' = Stored
          /\ seen' = {}
          /\ UNCHANGED <<horizon, durable, history, budgets>>
      BY <1>2 DEF Start
    <2>2. Stored \in Tokens /\ (Stored = row \/ Stored = 0 \/ Stored = Now)
      BY <1>t DEF Stored, TypeOK, Tokens, None, Now
    <2>3. \A t \in Trades : t <= Stored => Covered(t, saved)
      BY <2>2 DEF IInv, TypeOK, TokenBehindWindow, Trades, Now, Tokens
    <2>b. link' \in BOOLEAN /\ stop' \in BOOLEAN BY <2>1
    <2>4. TypeOK'
      BY <2>1, <2>b, <2>2, <1>t DEF TypeOK, horizon, durable, history, budgets
    <2>5. Positioned' /\ TokenBehindWindow' /\ SeenIsCounted'
      BY <2>1 DEF IInv, Positioned, TokenBehindWindow, SeenIsCounted, Covered, durable, history
    <2>6. LastBehindWindow'
      BY <2>1, <2>3 DEF LastBehindWindow, Covered, history
    <2>7. DeliveredIsCovered'
      BY <2>1, <2>2 DEF DeliveredIsCovered, Trades, Tokens, Now
    <2> QED BY <2>4, <2>5, <2>6, <2>7 DEF IInv
  <1>3. CASE StartReset
    <2>1. /\ legacy' = None /\ row' = None
          /\ pc' = "idle" /\ link' = FALSE /\ stop' = FALSE /\ events' = 0 /\ fails' = 0
          /\ window' = saved /\ cursor' = Now /\ last' = Now /\ pos' = Now
          /\ seen' = {}
          /\ UNCHANGED <<horizon, saved, missed, history, budgets>>
      BY <1>3 DEF StartReset
    <2>b. link' \in BOOLEAN /\ stop' \in BOOLEAN /\ ~link' BY <2>1
    <2>2. TypeOK'
      BY <2>1, <2>b, <1>t DEF TypeOK, horizon, history, budgets, Tokens, Now
    <2> QED
      BY <2>1, <2>b, <2>2 DEF IInv, Positioned, TokenBehindWindow, LastBehindWindow,
         DeliveredIsCovered, SeenIsCounted, Trades, None, Now
  <1>4. CASE Connect
    <2>1. /\ pc = "idle" /\ link' = TRUE
          /\ pos' = (IF cursor = Now THEN head ELSE cursor)
          /\ gap' = (IF cursor = Now THEN gap \cup {t \in Trades : last < t /\ t <= head} ELSE gap)
          /\ UNCHANGED <<head, stale, legacy, row, saved, missed, pc, cursor, last, window, events,
                         fails, stop, seen, rejected, exits, signals>>
      BY <1>4 DEF Connect, horizon, durable, budgets
    <2>b. link' \in BOOLEAN BY <2>1
    <2>2. CASE cursor = Now
      <3>1. /\ pos' = head /\ gap' = gap \cup {t \in Trades : last < t /\ t <= head}
            /\ gap' \subseteq Trades
        BY <2>1, <2>2, <1>t DEF TypeOK
      <3>2. head \in Tokens /\ head >= 0 BY <1>t DEF TypeOK, Tokens, Now
      <3>3. TypeOK' BY <2>1, <2>b, <3>1, <3>2, <1>t DEF TypeOK
      <3>4. Positioned' BY <2>1, <2>2, <3>1, <3>2 DEF Positioned
      <3> QED
        BY <2>1, <3>1, <3>3, <3>4 DEF IInv, TokenBehindWindow, LastBehindWindow,
           DeliveredIsCovered, SeenIsCounted, InFlight, Covered
    <2>3. CASE cursor # Now
      BY <2>1, <2>b, <2>3 DEF IInv, TypeOK, Positioned, TokenBehindWindow, LastBehindWindow,
         DeliveredIsCovered, SeenIsCounted, InFlight, Covered, Trades, Tokens, Now
    <2> QED BY <2>2, <2>3
  <1>5. CASE CursorGone
    BY <1>5 DEF CursorGone, horizon, history, budgets, IInv, TypeOK, Positioned,
       TokenBehindWindow, LastBehindWindow, DeliveredIsCovered, SeenIsCounted, InFlight, Covered,
       Tokens, Now, None
  <1>6. CASE Deliver
    <2>1. /\ pc = "idle" /\ link /\ pos < head
          /\ pos' = pos + 1 /\ cursor' = pos + 1
          /\ UNCHANGED <<head, stale, legacy, row, saved, missed, link, last, window, events, stop,
                         gap, exits, signals>>
      BY <1>6 DEF Deliver, Available, horizon, durable, budgets
    <2>2. pos + 1 \in Trades /\ pos >= 0
      BY <2>1 DEF IInv, TypeOK, Positioned, Trades, Tokens, Now
    <2>n. \A t \in Trades : t <= pos + 1 => t <= pos \/ t = pos + 1
      BY <1>t DEF TypeOK, Trades, Tokens, Now
    <2>3. CASE pos + 1 <= stale /\ rejected' = rejected \cup {pos + 1} /\ UNCHANGED <<pc, fails, seen>>
      <3>1. TypeOK' /\ Positioned' BY <2>1, <2>2, <2>3, <1>t DEF IInv, TypeOK, Positioned, Trades, Tokens, Now
      <3>2. TokenBehindWindow' /\ LastBehindWindow'
        BY <2>1, <2>3 DEF IInv, TokenBehindWindow, LastBehindWindow, Covered
      <3>3. DeliveredIsCovered'
        BY <2>1, <2>2, <2>3, <2>n DEF IInv, DeliveredIsCovered, SeenIsCounted, InFlight, Covered
      <3>4. SeenIsCounted'
        BY <2>1, <2>3 DEF IInv, SeenIsCounted, InFlight
      <3> QED BY <3>1, <3>2, <3>3, <3>4 DEF IInv
    <2>4. CASE pos + 1 \in seen /\ UNCHANGED <<pc, fails, seen, rejected>>
      <3>1. TypeOK' /\ Positioned' BY <2>1, <2>2, <2>4, <1>t DEF IInv, TypeOK, Positioned, Trades, Tokens, Now
      <3>2. TokenBehindWindow' /\ LastBehindWindow'
        BY <2>1, <2>4 DEF IInv, TokenBehindWindow, LastBehindWindow, Covered
      <3>3. DeliveredIsCovered'
        BY <2>1, <2>2, <2>4, <2>n DEF IInv, DeliveredIsCovered, SeenIsCounted, InFlight, Covered
      <3>4. SeenIsCounted'
        BY <2>1, <2>4 DEF IInv, SeenIsCounted, InFlight
      <3> QED BY <3>1, <3>2, <3>3, <3>4 DEF IInv
    <2>5. CASE /\ seen' = seen \cup {pos + 1} /\ fails' = 0 /\ pc' = "yielded"
               /\ UNCHANGED rejected
      <3>1. TypeOK' /\ Positioned' BY <2>1, <2>2, <2>5, <1>t DEF IInv, TypeOK, Positioned, Trades, Tokens, Now
      <3>2. TokenBehindWindow' /\ LastBehindWindow'
        BY <2>1, <2>5 DEF IInv, TokenBehindWindow, LastBehindWindow, Covered
      <3>3. DeliveredIsCovered'
        BY <2>1, <2>2, <2>5, <2>n DEF IInv, DeliveredIsCovered, SeenIsCounted, InFlight, Covered
      <3>4. SeenIsCounted'
        BY <2>1, <2>5 DEF IInv, SeenIsCounted, InFlight
      <3> QED BY <3>1, <3>2, <3>3, <3>4 DEF IInv
    <2> QED BY <1>6, <2>3, <2>4, <2>5 DEF Deliver, Admit
  <1>7. CASE AddTrade
    <2>1. /\ pc = "yielded" /\ pc' = "added"
          /\ window' = [window EXCEPT ![cursor] = @ + 1]
          /\ UNCHANGED <<head, stale, legacy, row, saved, missed, link, pos, cursor, last, events,
                         fails, stop, seen, rejected, gap, exits, signals>>
      BY <1>7 DEF AddTrade, horizon, durable, history, budgets
    <2>2. cursor \in Trades BY <2>1, <1>t DEF TypeOK
    <2>3. /\ window' \in [Trades -> Nat] /\ window'[cursor] > 0
          /\ \A t \in Trades : window[t] > 0 => window'[t] > 0
      BY <2>1, <2>2, <1>t DEF TypeOK
    <2>4. TypeOK' /\ Positioned' /\ TokenBehindWindow'
      BY <2>1, <2>2, <2>3 DEF IInv, TypeOK, Positioned, TokenBehindWindow, Covered
    <2>5. LastBehindWindow'
      BY <2>1, <2>3 DEF IInv, LastBehindWindow, Covered
    <2>6. DeliveredIsCovered'
      BY <2>1, <2>2, <2>3 DEF IInv, DeliveredIsCovered, Covered, InFlight
    <2>7. SeenIsCounted'
      BY <2>1, <2>2, <2>3, <1>t DEF IInv, SeenIsCounted, InFlight, TypeOK
    <2> QED BY <2>4, <2>5, <2>6, <2>7 DEF IInv
  <1>8. CASE Advance
    <2>1. /\ pc = "added" /\ pc' = "resume" /\ last' = cursor
          /\ UNCHANGED <<head, stale, link, pos, cursor, window, fails, stop, seen, rejected, gap,
                         exits, signals>>
      BY <1>8 DEF Advance, horizon, history, budgets
    <2>2. cursor \in Trades /\ cursor = pos
      BY <2>1 DEF IInv, TypeOK, Positioned
    <2>3. \A t \in Trades : t <= cursor => Covered(t, window)
      BY <2>1, <2>2 DEF IInv, TypeOK, LastBehindWindow, DeliveredIsCovered, InFlight, Trades,
         Tokens, Now
    <2>4. /\ events' \in Nat
          /\ TokenBehindWindow'
          /\ legacy' \in {None, 0} /\ row' \in {None} \cup Tokens
          /\ saved' \in [Trades -> Nat] /\ missed' \in 0 .. MaxFailedWrites
      <3>1. CASE Flush(cursor, window) /\ events' = 0
        <4>1. cursor \in Tokens /\ window \in [Trades -> Nat] /\ TokenBehindWindow
          BY DEF IInv, TypeOK
        <4>2. UNCHANGED history BY <2>1 DEF history
        <4> QED BY <3>1, <4>1, <4>2, <2>3, <1>t, FlushKeeps
      <3>2. CASE events' = events + 1 /\ UNCHANGED durable
        BY <3>2, <2>1 DEF IInv, TypeOK, TokenBehindWindow, Covered, durable
      <3> QED BY <1>8, <3>1, <3>2 DEF Advance, OnTradeProcessed
    <2>5. TypeOK' /\ Positioned'
      BY <2>1, <2>2, <2>4 DEF IInv, TypeOK, Positioned
    <2>6. LastBehindWindow' /\ SeenIsCounted'
      BY <2>1, <2>3 DEF IInv, LastBehindWindow, SeenIsCounted, InFlight, Covered
    <2>7. DeliveredIsCovered'
      BY <2>1, <2>2 DEF DeliveredIsCovered, Trades
    <2> QED BY <2>4, <2>5, <2>6, <2>7 DEF IInv
  <1>9. CASE Fail
    <2>1. UNCHANGED <<head, stale, legacy, row, saved, missed, seen, rejected, gap, signals>>
      BY <1>9 DEF Fail, horizon, durable, history
    <2>2. CASE /\ fails + 1 < Threshold
               /\ pc' = "idle" /\ link' = FALSE /\ fails' = fails + 1
               /\ UNCHANGED <<pos, cursor, last, window, events, stop, exits>>
      <3>1. pc = "resume" \/ pc = "idle" BY <1>9 DEF Fail
      <3>b. link' \in BOOLEAN /\ ~link' BY <2>2
      <3>2. TypeOK' BY <2>1, <2>2, <3>b, <1>t DEF TypeOK
      <3> QED
        BY <2>1, <2>2, <3>1, <3>b, <3>2 DEF IInv, Positioned, TokenBehindWindow, LastBehindWindow,
           DeliveredIsCovered, SeenIsCounted, InFlight, Covered
    <2>3. CASE exits < MaxExits /\ Down /\ exits' = exits + 1
      <3>1. TokenBehindWindow' BY <2>1 DEF IInv, TokenBehindWindow, Covered
      <3>2. exits' \in 0 .. MaxExits BY <2>3, <1>t DEF TypeOK
      <3>3. /\ head' \in 0 .. MaxTrades /\ stale' \in 0 .. MaxTrades
            /\ legacy' \in {None, 0} /\ row' \in {None} \cup Tokens
            /\ saved' \in [Trades -> Nat] /\ missed' \in 0 .. MaxFailedWrites
            /\ seen' \subseteq Trades /\ rejected' \subseteq Trades /\ gap' \subseteq Trades
            /\ signals' \in 0 .. MaxSignals
        BY <2>1, <1>t DEF TypeOK
      <3> QED BY <2>3, <3>1, <3>2, <3>3, DownKeeps
    <2> QED BY <1>9, <2>2, <2>3 DEF Fail
  <1>10. CASE CleanExit
    <2>1. /\ Down /\ pc # "down" /\ Flush(last, window)
          /\ UNCHANGED <<head, stale, seen, rejected, gap, signals>>
          /\ UNCHANGED history
      BY <1>10 DEF CleanExit, horizon, history
    <2>2. exits' \in 0 .. MaxExits
      BY <1>10, <1>t DEF CleanExit, TypeOK
    <2>3. \A t \in Trades : t <= last => Covered(t, window)
      BY <2>1 DEF IInv, LastBehindWindow
    <2>4. last \in Tokens /\ window \in [Trades -> Nat] /\ TokenBehindWindow
      BY DEF IInv, TypeOK
    <2>5. /\ TokenBehindWindow'
          /\ legacy' \in {None, 0} /\ row' \in {None} \cup Tokens
          /\ saved' \in [Trades -> Nat] /\ missed' \in 0 .. MaxFailedWrites
      BY <2>1, <2>3, <2>4, <1>t, FlushKeeps
    <2>6. /\ head' \in 0 .. MaxTrades /\ stale' \in 0 .. MaxTrades
          /\ seen' \subseteq Trades /\ rejected' \subseteq Trades /\ gap' \subseteq Trades
          /\ signals' \in 0 .. MaxSignals
      BY <2>1, <1>t DEF TypeOK
    <2> QED BY <2>1, <2>2, <2>5, <2>6, DownKeeps
  <1>11. CASE Shutdown
    <2>1. /\ pc # "down" /\ Flush(last, window)
          /\ stop' = TRUE /\ signals < MaxSignals /\ signals' = signals + 1
          /\ UNCHANGED <<head, stale, pc, link, pos, cursor, last, window, events, fails, seen,
                         rejected, gap, exits>>
          /\ UNCHANGED history
      BY <1>11 DEF Shutdown, horizon, history
    <2>2. \A t \in Trades : t <= last => Covered(t, window)
      BY <2>1 DEF IInv, LastBehindWindow
    <2>3. last \in Tokens /\ window \in [Trades -> Nat] /\ TokenBehindWindow
      BY DEF IInv, TypeOK
    <2>4. /\ TokenBehindWindow'
          /\ legacy' \in {None, 0} /\ row' \in {None} \cup Tokens
          /\ saved' \in [Trades -> Nat] /\ missed' \in 0 .. MaxFailedWrites
      BY <2>1, <2>2, <2>3, <1>t, FlushKeeps
    <2>5. TypeOK'
      BY <2>1, <2>4, <1>t DEF TypeOK
    <2> QED
      BY <2>1, <2>4, <2>5 DEF IInv, Positioned, LastBehindWindow, DeliveredIsCovered,
         SeenIsCounted, InFlight, Covered
  <1>12. CASE Crash
    <2>1. /\ Down /\ exits < MaxExits /\ exits' = exits + 1
          /\ UNCHANGED <<head, stale, legacy, row, saved, missed, seen, rejected, gap, signals>>
      BY <1>12 DEF Crash, horizon, durable, history
    <2>2. TokenBehindWindow' BY <2>1 DEF IInv, TokenBehindWindow, Covered
    <2>3. exits' \in 0 .. MaxExits BY <2>1, <1>t DEF TypeOK
    <2>4. /\ head' \in 0 .. MaxTrades /\ stale' \in 0 .. MaxTrades
          /\ legacy' \in {None, 0} /\ row' \in {None} \cup Tokens
          /\ saved' \in [Trades -> Nat] /\ missed' \in 0 .. MaxFailedWrites
          /\ seen' \subseteq Trades /\ rejected' \subseteq Trades /\ gap' \subseteq Trades
          /\ signals' \in 0 .. MaxSignals
      BY <2>1, <1>t DEF TypeOK
    <2> QED BY <2>1, <2>2, <2>3, <2>4, DownKeeps
  <1>13. CASE UNCHANGED vars
    BY <1>13 DEF vars, horizon, durable, process, history, budgets, IInv, TypeOK, Positioned,
       TokenBehindWindow, LastBehindWindow, DeliveredIsCovered, SeenIsCounted, InFlight, Covered
  <1> QED
    BY <1>1, <1>2, <1>3, <1>4, <1>5, <1>6, <1>7, <1>8, <1>9, <1>10, <1>11, <1>12, <1>13 DEF Next

\* Without Redis keys that outlive the process, the cursor in stream_checkpoint is
\* never ahead of the windows in rolling_window_checkpoints, whatever crashes, signals,
\* reconnects, resets and failed writes happen.
THEOREM StreamTokenBehindWindow == ASSUME ~Redis PROVE Spec => []TokenBehindWindow
  <1>1. Init => IInv BY InitIInv
  <1>2. IInv /\ [Next]_vars => IInv' BY StepIInv
  <1>3. IInv => TokenBehindWindow BY DEF IInv
  <1> QED BY <1>1, <1>2, <1>3, PTL DEF Spec
-----------------------------------------------------------------------------
(* Each trade once.                                                        *)

\* No cursor is ahead of Horizon.
Published ==
    /\ row <= head /\ cursor <= head /\ last <= head
    /\ link => pos <= head

\* The disk counts no trade twice, and none a restart would deliver again: trades after
\* the durable cursor, or all of them when the legacy cursor is the one in force.
SavedOnce ==
    \A t \in Trades :
        /\ saved[t] <= 1
        /\ saved[t] > 0 => t <= head /\ (row >= 0 => t <= row) /\ (row = None => legacy = None)

\* Nor does memory, and none the connection will deliver: trades after the cursor, or
\* before the newest trade when the cursor is "now".
WindowOnce ==
    \A t \in Trades :
        /\ window[t] <= 1
        /\ window[t] > 0 =>
              /\ pc # "down" /\ t <= head
              /\ cursor # Now => t <= cursor
              /\ link => t <= pos
              /\ pc = "yielded" => t < cursor
              /\ pc # "added" /\ last # Now => t <= last

Placed == TypeOK /\ Positioned
OnceInv == Placed /\ (signals = 0 => Published /\ SavedOnce /\ WindowOnce)

(* Loss is bounded.                                                        *)

\* Trades counted since the last checkpoint that was attempted.
SinceFlush == events + (IF pc = "added" THEN 1 ELSE 0)

LossInv ==
    /\ Placed
    /\ events < MaxEvents
    /\ Cardinality(Unsaved) <= missed * MaxEvents + SinceFlush

-----------------------------------------------------------------------------
LEMMA FlushTypes ==
    ASSUME TypeOK, NEW c \in Tokens, NEW w \in [Trades -> Nat], Flush(c, w)
    PROVE  /\ legacy' \in {None, 0} /\ row' \in {None} \cup Tokens
           /\ saved' \in [Trades -> Nat] /\ missed' \in 0 .. MaxFailedWrites
  BY BoundsAssumption DEF Flush, TypeOK

LEMMA DownPlaced ==
    ASSUME Down,
           head' \in 0 .. MaxTrades, stale' \in 0 .. MaxTrades,
           legacy' \in {None, 0}, row' \in {None} \cup Tokens,
           saved' \in [Trades -> Nat], missed' \in 0 .. MaxFailedWrites,
           seen' \subseteq Trades, rejected' \subseteq Trades, gap' \subseteq Trades,
           exits' \in 0 .. MaxExits, signals' \in 0 .. MaxSignals
    PROVE  Placed'
  <1> USE BoundsAssumption, PolicyAssumption
  <1>1. NoTrades \in [Trades -> Nat] BY DEF NoTrades
  <1>2. link' \in BOOLEAN /\ stop' \in BOOLEAN BY DEF Down
  <1>3. TypeOK' BY <1>1, <1>2 DEF Down, TypeOK, Tokens, Now
  <1> QED BY <1>3 DEF Down, Placed, Positioned

\* Types and positions, with idempotency keys in Redis or not.
LEMMA StepPlaced == ASSUME Placed, [Next]_vars PROVE Placed'
  <1> USE BoundsAssumption, PolicyAssumption, KindAssumption
  <1>t. TypeOK BY DEF Placed
  <1>1. CASE Publish \/ Age
    BY <1>1 DEF Publish, Age, durable, process, horizon, history, budgets, Placed, TypeOK, Positioned
  <1>2. CASE Start
    <2>1. Stored \in Tokens
      BY <1>t DEF Stored, TypeOK, Tokens, None, Now
    <2>2. link' \in BOOLEAN /\ stop' \in BOOLEAN BY <1>2 DEF Start
    <2>3. seen' \subseteq Trades BY <1>2, <1>t DEF Start, TypeOK
    <2> QED
      BY <1>2, <2>1, <2>2, <2>3, <1>t
         DEF Start, Placed, TypeOK, Positioned, horizon, durable, history, budgets
  <1>3. CASE StartReset
    <2>2. link' \in BOOLEAN /\ stop' \in BOOLEAN BY <1>3 DEF StartReset
    <2>3. seen' \subseteq Trades BY <1>3, <1>t DEF StartReset, TypeOK
    <2> QED
      BY <1>3, <2>2, <2>3, <1>t
         DEF StartReset, Placed, TypeOK, Positioned, horizon, history, budgets, Tokens, Now
  <1>4. CASE Connect
    <2>1. /\ link' = TRUE /\ link' \in BOOLEAN
          /\ pos' = (IF cursor = Now THEN head ELSE cursor) /\ gap' \subseteq Trades
          /\ UNCHANGED <<head, stale, legacy, row, saved, missed, pc, cursor, last, window, events,
                         fails, stop, seen, rejected, exits, signals>>
      BY <1>4, <1>t DEF Connect, horizon, durable, budgets, TypeOK
    <2>2. pos' \in Tokens /\ pos' >= 0
      BY <2>1, <1>t DEF TypeOK, Tokens, Now
    <2> QED BY <1>4, <2>1, <2>2, <1>t DEF Connect, Placed, TypeOK, Positioned
  <1>5. CASE CursorGone
    BY <1>5 DEF CursorGone, horizon, history, budgets, Placed, TypeOK, Positioned, Tokens, Now
  <1>6. CASE Deliver
    <2>1. /\ pc = "idle" /\ link /\ pos < head
          /\ pos' = pos + 1 /\ cursor' = pos + 1 /\ Admit(pos + 1)
          /\ UNCHANGED <<head, stale, legacy, row, saved, missed, link, last, window, events, stop,
                         gap, exits, signals>>
      BY <1>6 DEF Deliver, Available, horizon, durable, budgets
    <2>2. pos + 1 \in Trades /\ pos + 1 \in Tokens
      BY <2>1, <1>t DEF Placed, TypeOK, Positioned, Trades, Tokens, Now
    <2>3. /\ pc' \in {"idle", "yielded"} /\ fails' \in 0 .. Threshold - 1
          /\ seen' \subseteq Trades /\ rejected' \subseteq Trades
      BY <2>1, <2>2, <1>t DEF Admit, TypeOK
    <2>4. TypeOK' BY <2>1, <2>2, <2>3, <1>t DEF TypeOK
    <2>5. Positioned' BY <2>1, <2>2 DEF Positioned, Trades
    <2> QED BY <2>4, <2>5 DEF Placed
  <1>7. CASE AddTrade
    BY <1>7 DEF AddTrade, horizon, durable, history, budgets, Placed, TypeOK, Positioned
  <1>8. CASE Advance
    <2>1. /\ pc = "added" /\ pc' = "resume" /\ last' = cursor /\ OnTradeProcessed
          /\ UNCHANGED <<head, stale, link, pos, cursor, window, fails, stop, seen, rejected, gap,
                         exits, signals>>
      BY <1>8 DEF Advance, horizon, history, budgets
    <2>2. cursor \in Tokens /\ window \in [Trades -> Nat] BY <1>t DEF TypeOK
    <2>3. /\ events' \in Nat
          /\ legacy' \in {None, 0} /\ row' \in {None} \cup Tokens
          /\ saved' \in [Trades -> Nat] /\ missed' \in 0 .. MaxFailedWrites
      <3>1. CASE Flush(cursor, window) /\ events' = 0
        BY <3>1, <2>2, <1>t, FlushTypes
      <3>2. CASE events' = events + 1 /\ UNCHANGED durable
        BY <3>2, <1>t DEF TypeOK, durable
      <3> QED BY <2>1, <3>1, <3>2 DEF OnTradeProcessed
    <2> QED BY <2>1, <2>3, <1>t DEF Placed, TypeOK, Positioned
  <1>9. CASE Fail
    <2>1. UNCHANGED <<head, stale, legacy, row, saved, missed, seen, rejected, gap, signals>>
      BY <1>9 DEF Fail, horizon, durable, history
    <2>2. CASE /\ fails + 1 < Threshold
               /\ pc' = "idle" /\ link' = FALSE /\ fails' = fails + 1
               /\ UNCHANGED <<pos, cursor, last, window, events, stop, exits>>
      <3>1. link' \in BOOLEAN /\ ~link' BY <2>2
      <3> QED BY <2>1, <2>2, <3>1, <1>t DEF Placed, TypeOK, Positioned
    <2>3. CASE exits < MaxExits /\ Down /\ exits' = exits + 1
      BY <2>1, <2>3, <1>t, DownPlaced DEF TypeOK
    <2> QED BY <1>9, <2>2, <2>3 DEF Fail
  <1>10. CASE CleanExit
    <2>1. /\ Down /\ Flush(last, window)
          /\ UNCHANGED <<head, stale, seen, rejected, gap, signals>>
      BY <1>10 DEF CleanExit, horizon, history
    <2>2. exits' \in 0 .. MaxExits BY <1>10, <1>t DEF CleanExit, TypeOK
    <2>3. last \in Tokens /\ window \in [Trades -> Nat] BY <1>t DEF TypeOK
    <2> QED BY <2>1, <2>2, <2>3, <1>t, FlushTypes, DownPlaced DEF TypeOK
  <1>11. CASE Shutdown
    <2>1. /\ pc # "down" /\ Flush(last, window)
          /\ stop' = TRUE /\ stop' \in BOOLEAN /\ signals < MaxSignals /\ signals' = signals + 1
          /\ UNCHANGED <<head, stale, pc, link, pos, cursor, last, window, events, fails, seen,
                         rejected, gap, exits>>
      BY <1>11 DEF Shutdown, horizon, history
    <2>2. last \in Tokens /\ window \in [Trades -> Nat] BY <1>t DEF TypeOK
    <2>3. /\ legacy' \in {None, 0} /\ row' \in {None} \cup Tokens
          /\ saved' \in [Trades -> Nat] /\ missed' \in 0 .. MaxFailedWrites
      BY <2>1, <2>2, <1>t, FlushTypes
    <2> QED BY <2>1, <2>3, <1>t DEF Placed, TypeOK, Positioned
  <1>12. CASE Crash
    <2>1. /\ Down /\ exits < MaxExits /\ exits' = exits + 1
          /\ UNCHANGED <<head, stale, legacy, row, saved, missed, seen, rejected, gap, signals>>
      BY <1>12 DEF Crash, horizon, durable, history
    <2>2. exits' \in 0 .. MaxExits BY <2>1, <1>t DEF TypeOK
    <2> QED BY <2>1, <2>2, <1>t, DownPlaced DEF TypeOK
  <1>13. CASE UNCHANGED vars
    BY <1>13 DEF vars, horizon, durable, process, history, budgets, Placed, TypeOK, Positioned
  <1> QED
    BY <1>1, <1>2, <1>3, <1>4, <1>5, <1>6, <1>7, <1>8, <1>9, <1>10, <1>11, <1>12, <1>13 DEF Next

\* What a checkpoint leaves on disk.
LEMMA FlushOnce ==
    ASSUME TypeOK, row <= head, SavedOnce, NEW c \in Tokens, NEW w \in [Trades -> Nat],
           c <= head, head' = head,
           \A t \in Trades : w[t] <= 1 /\ (w[t] > 0 => t <= head /\ (c >= 0 => t <= c)),
           Flush(c, w)
    PROVE  SavedOnce' /\ row' <= head'
  <1>1. CASE row' = c /\ saved' = w
    BY <1>1 DEF SavedOnce, Tokens, None, Now
  <1>2. CASE UNCHANGED <<legacy, row, saved>>
    BY <1>2 DEF SavedOnce
  <1> QED BY <1>1, <1>2 DEF Flush

LEMMA DownOnce ==
    ASSUME Down, TypeOK, head' = head, row' <= head', SavedOnce'
    PROVE  Published' /\ SavedOnce' /\ WindowOnce'
  BY BoundsAssumption DEF Down, TypeOK, Published, WindowOnce, NoTrades, Now

\* The windows a start loads are those no trade will be delivered to again.
LEMMA StartOnce ==
    ASSUME TypeOK, Published, SavedOnce, NEW c \in Tokens,
           head' = head, saved' = saved, row' = row \/ row' = None,
           legacy' = legacy \/ legacy' = None, row' = None => row = None \/ legacy' = None,
           c = Now \/ (row >= 0 /\ c = row) \/ (row = None /\ legacy # None /\ c = 0),
           pc' = "idle", link' = FALSE, window' = saved, cursor' = c, last' = c
    PROVE  Published' /\ SavedOnce' /\ WindowOnce'
  <1> USE BoundsAssumption
  <1>1. head \in Nat /\ c <= head
    BY DEF TypeOK, Published, Now
  <1>2. Published'
    BY <1>1 DEF Published, None
  <1>3. SavedOnce'
    BY DEF SavedOnce, TypeOK, None
  <1>4. \A t \in Trades : saved[t] > 0 /\ c # Now => t <= c
    BY DEF SavedOnce, Now
  <1>5. WindowOnce'
    BY <1>4 DEF SavedOnce, WindowOnce
  <1> QED BY <1>2, <1>3, <1>5

LEMMA InitOnce == Init => OnceInv
  <1> SUFFICES ASSUME Init PROVE OnceInv
    OBVIOUS
  <1>1. Placed BY InitIInv DEF IInv, Placed
  <1> QED BY <1>1 DEF Init, OnceInv, Published, SavedOnce, WindowOnce, NoTrades, None, Now

LEMMA StepOnce == ASSUME OnceInv, [Next]_vars PROVE OnceInv'
  <1> USE BoundsAssumption
  <1>p. Placed' BY StepPlaced DEF OnceInv
  <1>t. TypeOK /\ Positioned BY DEF OnceInv, Placed
  <1> SUFFICES ASSUME signals' = 0
               PROVE  Published' /\ SavedOnce' /\ WindowOnce'
    BY <1>p DEF OnceInv
  <1>11. ~Shutdown
    BY <1>t DEF Shutdown, TypeOK
  <1>s. signals = 0
    BY <1>11 DEF Next, vars, budgets, Publish, Age, Start, StartReset, Connect, CursorGone, Deliver,
       AddTrade, Advance, Fail, CleanExit, Crash
  <1>o. Published /\ SavedOnce /\ WindowOnce
    BY <1>s DEF OnceInv
  <1>1. CASE Publish \/ Age
    <2>1. /\ head' = head + 1 \/ head' = head
          /\ UNCHANGED <<legacy, row, saved, pc, link, pos, cursor, last, window>>
      BY <1>1 DEF Publish, Age, durable, process
    <2>2. head \in Int /\ row \in Int /\ cursor \in Int /\ last \in Int /\ pos \in Int
      BY <1>t DEF TypeOK, Tokens, None, Now
    <2>3. \A t \in Trades : t <= head => t <= head'
      BY <2>1, <2>2 DEF Trades
    <2> QED BY <2>1, <2>2, <2>3, <1>o DEF Published, SavedOnce, WindowOnce
  <1>2. CASE Start
    <2>1. Stored \in Tokens
      BY <1>t DEF Stored, TypeOK, Tokens, None, Now
    <2>2. \/ Stored = Now
          \/ row >= 0 /\ Stored = row
          \/ row = None /\ legacy # None /\ Stored = 0
      BY <1>t DEF Stored, TypeOK, Tokens, None, Now
    <2>3. /\ pc' = "idle" /\ link' = FALSE /\ window' = saved /\ cursor' = Stored /\ last' = Stored
          /\ UNCHANGED <<head, legacy, row, saved>>
      BY <1>2 DEF Start, horizon, durable
    <2> HIDE DEF Stored
    <2> QED BY <2>1, <2>2, <2>3, <1>o, <1>t, StartOnce
  <1>3. CASE StartReset
    <2>1. Now \in Tokens BY DEF Tokens, Now
    <2>2. /\ pc' = "idle" /\ link' = FALSE /\ window' = saved /\ cursor' = Now /\ last' = Now
          /\ legacy' = None /\ row' = None /\ UNCHANGED <<head, saved>>
      BY <1>3 DEF StartReset, horizon
    <2> QED BY <2>1, <2>2, <1>o, <1>t, StartOnce
  <1>4. CASE Connect
    <2>1. /\ pc = "idle" /\ link' = TRUE
          /\ pos' = (IF cursor = Now THEN head ELSE cursor)
          /\ UNCHANGED <<head, legacy, row, saved, pc, cursor, last, window>>
      BY <1>4 DEF Connect, horizon, durable
    <2>2. head \in Nat /\ pos' <= head
      BY <2>1, <1>o, <1>t DEF TypeOK, Published
    <2> QED BY <2>1, <2>2, <1>o, <1>t DEF Published, SavedOnce, WindowOnce
  <1>5. CASE CursorGone
    <2>1. head \in Nat BY <1>t DEF TypeOK
    <2> QED BY <1>5, <2>1, <1>o DEF CursorGone, horizon, Published, SavedOnce, WindowOnce, Now
  <1>6. CASE Deliver
    <2>1. /\ pc = "idle" /\ link /\ pos < head
          /\ pos' = pos + 1 /\ cursor' = pos + 1 /\ pc' \in {"idle", "yielded"}
          /\ UNCHANGED <<head, legacy, row, saved, link, last, window>>
      BY <1>6 DEF Deliver, Available, Admit, horizon, durable
    <2>2. pos \in Int /\ head \in Int BY <1>t DEF TypeOK, Tokens
    <2>3. Published' /\ SavedOnce'
      BY <2>1, <2>2, <1>o DEF Published, SavedOnce
    <2>4. \A t \in Trades : window[t] > 0 => t < pos + 1
      BY <2>1, <2>2, <1>o DEF WindowOnce, Trades
    <2>5. WindowOnce'
      BY <2>1, <2>2, <2>4, <1>o DEF WindowOnce, Trades
    <2> QED BY <2>3, <2>5
  <1>7. CASE AddTrade
    <2>1. /\ pc = "yielded" /\ pc' = "added"
          /\ window' = [window EXCEPT ![cursor] = @ + 1]
          /\ UNCHANGED <<head, legacy, row, saved, link, pos, cursor, last>>
      BY <1>7 DEF AddTrade, horizon, durable
    <2>2. cursor \in Trades /\ cursor = pos /\ window \in [Trades -> Nat]
      BY <2>1, <1>t DEF TypeOK, Positioned
    <2>3. window[cursor] = 0
      BY <2>1, <2>2, <1>o DEF WindowOnce, Trades
    <2>4. \A t \in Trades : window'[t] = IF t = cursor THEN 1 ELSE window[t]
      BY <2>1, <2>2, <2>3
    <2>5. Published' /\ SavedOnce'
      BY <2>1, <1>o DEF Published, SavedOnce
    <2>6. WindowOnce'
      BY <2>1, <2>2, <2>4, <1>o DEF Published, WindowOnce, Trades
    <2> QED BY <2>5, <2>6
  <1>8. CASE Advance
    <2>1. /\ pc = "added" /\ pc' = "resume" /\ last' = cursor /\ OnTradeProcessed
          /\ UNCHANGED <<head, link, pos, cursor, window>>
      BY <1>8 DEF Advance, horizon
    <2>2. cursor \in Trades /\ cursor \in Tokens /\ window \in [Trades -> Nat] /\ cursor # Now
      BY <2>1, <1>t DEF TypeOK, Trades, Now
    <2>3. \A t \in Trades : window[t] <= 1 /\ (window[t] > 0 => t <= head /\ t <= cursor)
      BY <2>2, <1>o DEF WindowOnce
    <2>4. SavedOnce' /\ row' <= head'
      <3>1. CASE Flush(cursor, window)
        BY <3>1, <2>1, <2>2, <2>3, <1>o, <1>t, FlushOnce DEF Published
      <3>2. CASE UNCHANGED durable
        BY <3>2, <2>1, <1>o DEF durable, Published, SavedOnce
      <3> QED BY <2>1, <3>1, <3>2 DEF OnTradeProcessed
    <2> QED BY <2>1, <2>2, <2>3, <2>4, <1>o DEF Published, WindowOnce
  <1>9. CASE Fail
    <2>1. UNCHANGED <<head, legacy, row, saved>>
      BY <1>9 DEF Fail, horizon, durable
    <2>2. SavedOnce' /\ row' <= head'
      BY <2>1, <1>o DEF Published, SavedOnce
    <2>3. CASE pc' = "idle" /\ link' = FALSE /\ UNCHANGED <<pos, cursor, last, window>>
      <3>1. pc \in {"idle", "resume"} BY <1>9 DEF Fail
      <3> QED BY <2>1, <2>2, <2>3, <3>1, <1>o DEF Published, WindowOnce
    <2>4. CASE Down
      BY <2>1, <2>2, <2>4, <1>t, DownOnce
    <2> QED BY <1>9, <2>3, <2>4 DEF Fail
  <1>10. CASE CleanExit
    <2>1. /\ pc \in {"idle", "yielded"} /\ Down /\ Flush(last, window) /\ head' = head
      BY <1>10 DEF CleanExit, horizon
    <2>2. last \in Tokens /\ window \in [Trades -> Nat] BY <1>t DEF TypeOK
    <2>3. \A t \in Trades :
            window[t] <= 1 /\ (window[t] > 0 => t <= head /\ (last >= 0 => t <= last))
      BY <2>1, <1>o DEF WindowOnce, Now
    <2>4. SavedOnce' /\ row' <= head'
      BY <2>1, <2>2, <2>3, <1>o, <1>t, FlushOnce DEF Published
    <2> QED BY <2>1, <2>4, <1>t, DownOnce
  <1>12. CASE Crash
    <2>1. Down /\ UNCHANGED <<head, legacy, row, saved>>
      BY <1>12 DEF Crash, horizon, durable
    <2>2. SavedOnce' /\ row' <= head'
      BY <2>1, <1>o DEF Published, SavedOnce
    <2> QED BY <2>1, <2>2, <1>t, DownOnce
  <1>13. CASE UNCHANGED vars
    BY <1>13, <1>o DEF vars, horizon, durable, process, Published, SavedOnce, WindowOnce
  <1> QED
    BY <1>1, <1>2, <1>3, <1>4, <1>5, <1>6, <1>7, <1>8, <1>9, <1>10, <1>11, <1>12, <1>13 DEF Next

\* A crash and a replay never make a window count a trade twice, in memory or on disk,
\* as long as no signal handler has saved windows ahead of their cursor.
THEOREM StreamEachTradeOnce == Spec => []EachTradeOnce
  <1>1. OnceInv /\ [Next]_vars => OnceInv' BY StepOnce
  <1>2. OnceInv => EachTradeOnce BY DEF OnceInv, SavedOnce, WindowOnce, EachTradeOnce
  <1> QED BY <1>1, <1>2, InitOnce, PTL DEF Spec

\* Trades is finite, and so is what is not saved.
LEMMA UnsavedFinite == IsFiniteSet(Unsaved) /\ Cardinality(Unsaved) \in Nat
  <1>1. IsFiniteSet(Trades) BY BoundsAssumption, FS_Interval DEF Trades
  <1>2. Unsaved \subseteq Trades BY DEF Unsaved
  <1> QED BY <1>1, <1>2, FS_Subset, FS_CardinalityType

\* Arithmetic of the bound.
LEMMA Allowance ==
    ASSUME NEW m \in Nat, NEW e \in 0 .. MaxEvents - 1, NEW a
    PROVE  /\ m * MaxEvents \in Nat /\ (m + 1) * MaxEvents = m * MaxEvents + MaxEvents
           /\ MaxEvents \in Nat /\ e \in Nat /\ e < MaxEvents
           /\ e + (IF a = "added" THEN 1 ELSE 0) \in Nat
           /\ e + (IF a = "added" THEN 1 ELSE 0) <= MaxEvents
  <1>1. MaxEvents \in Nat BY PolicyAssumption
  <1>2. m * MaxEvents \in Nat /\ (m + 1) * MaxEvents = m * MaxEvents + MaxEvents
    BY <1>1
  <1>3. e \in Nat /\ e + 1 <= MaxEvents /\ e < MaxEvents BY <1>1
  <1> QED BY <1>1, <1>2, <1>3

\* With nothing unsaved, whatever the counters say is enough.
LEMMA NothingUnsaved ==
    ASSUME Placed', events' \in 0 .. MaxEvents - 1, missed' \in Nat,
           \A t \in Trades : pc' = "down" \/ window'[t] <= saved'[t]
    PROVE  LossInv'
  <1>1. Unsaved' = {}
    BY DEF Unsaved, Placed, TypeOK, Trades
  <1>2. Cardinality(Unsaved)' = 0 BY <1>1, FS_EmptySet
  <1>3. missed' * MaxEvents \in Nat /\ SinceFlush' \in Nat
    BY Allowance DEF SinceFlush
  <1>4. Cardinality(Unsaved)' <= missed' * MaxEvents + SinceFlush'
    BY <1>2, <1>3
  <1>5. events' < MaxEvents BY PolicyAssumption
  <1> QED BY <1>4, <1>5 DEF LossInv

\* A step that leaves windows and disk alone may count a failed write or an event more.
LEMMA SameUnsaved ==
    ASSUME LossInv, Placed', events' \in 0 .. MaxEvents - 1, missed' \in Nat,
           UNCHANGED <<window, saved>>, pc # "down" \/ window = saved,
           \/ missed' = missed /\ SinceFlush' >= SinceFlush
           \/ missed' = missed + 1
    PROVE  LossInv'
  <1>1. Unsaved' \subseteq Unsaved
    BY DEF Unsaved, LossInv, Placed, TypeOK
  <1>2. Cardinality(Unsaved)' <= Cardinality(Unsaved)
    BY <1>1, UnsavedFinite, FS_Subset
  <1>3. Cardinality(Unsaved)' \in Nat
    BY <1>1, UnsavedFinite, FS_Subset, FS_CardinalityType
  <1>4. missed \in Nat /\ events \in 0 .. MaxEvents - 1
    BY BoundsAssumption, PolicyAssumption DEF LossInv, Placed, TypeOK
  <1>5. /\ missed * MaxEvents \in Nat /\ (missed + 1) * MaxEvents = missed * MaxEvents + MaxEvents
        /\ SinceFlush \in Nat /\ SinceFlush <= MaxEvents /\ SinceFlush' \in Nat
    BY <1>4, Allowance DEF SinceFlush
  <1>6. Cardinality(Unsaved)' <= missed' * MaxEvents + SinceFlush'
    <2>1. CASE missed' = missed /\ SinceFlush' >= SinceFlush
      BY <1>2, <1>3, <1>4, <1>5, <2>1, UnsavedFinite DEF LossInv
    <2>2. CASE missed' = missed + 1
      BY <1>2, <1>3, <1>4, <1>5, <2>2, UnsavedFinite, PolicyAssumption DEF LossInv
    <2> QED BY <2>1, <2>2
  <1>7. events' < MaxEvents BY PolicyAssumption
  <1> QED BY <1>6, <1>7 DEF LossInv

LEMMA InitLoss == Init => LossInv
  <1> SUFFICES ASSUME Init PROVE LossInv
    OBVIOUS
  <1>1. Placed BY InitIInv DEF IInv, Placed
  <1>2. Unsaved = {} BY DEF Init, Unsaved
  <1>3. Cardinality(Unsaved) = 0 BY <1>2, FS_EmptySet
  <1> QED BY <1>1, <1>3, PolicyAssumption DEF Init, LossInv, SinceFlush

LEMMA StepLoss == ASSUME LossInv, [Next]_vars PROVE LossInv'
  <1> USE BoundsAssumption, PolicyAssumption
  <1>p. Placed' BY StepPlaced DEF LossInv
  <1>t. /\ TypeOK /\ events \in 0 .. MaxEvents - 1 /\ missed \in Nat /\ missed' \in Nat
        /\ window \in [Trades -> Nat]
    BY <1>p DEF LossInv, Placed, TypeOK
  <1>1. CASE Publish \/ Age \/ Connect \/ CursorGone \/ UNCHANGED vars
    <2>1. UNCHANGED <<window, saved, missed, events, pc>>
      BY <1>1 DEF Publish, Age, Connect, CursorGone, vars, horizon, durable, process
    <2>2. SinceFlush' = SinceFlush /\ Unsaved' = Unsaved
      BY <2>1 DEF SinceFlush, Unsaved
    <2>3. Cardinality(Unsaved)' = Cardinality(Unsaved)
      BY <2>2
    <2> QED BY <1>p, <2>1, <2>2, <2>3 DEF LossInv
  <1>2. CASE Start \/ StartReset
    <2>1. window' = saved /\ saved' = saved /\ events' = 0
      BY <1>2 DEF Start, StartReset, durable
    <2>2. \A t \in Trades : window'[t] <= saved'[t]
      BY <2>1, <1>t DEF TypeOK
    <2> QED BY <1>p, <1>t, <2>1, <2>2, NothingUnsaved
  <1>3. CASE Deliver
    <2>1. pc = "idle" /\ pc' \in {"idle", "yielded"} /\ UNCHANGED <<window, saved, missed, events>>
      BY <1>3 DEF Deliver, Admit, durable
    <2>2. SinceFlush' >= SinceFlush
      BY <2>1, <1>t DEF SinceFlush
    <2> QED BY <1>p, <1>t, <2>1, <2>2, SameUnsaved
  <1>4. CASE AddTrade
    <2>1. /\ pc = "yielded" /\ pc' = "added"
          /\ window' = [window EXCEPT ![cursor] = @ + 1]
          /\ UNCHANGED <<saved, missed, events, cursor>>
      BY <1>4 DEF AddTrade, durable
    <2>2. PICK c \in Trades : c = cursor BY <2>1, <1>t DEF TypeOK
    <2>3. Unsaved' \subseteq Unsaved \cup {c}
      BY <2>1, <2>2, <1>t DEF Unsaved
    <2>4. /\ IsFiniteSet(Unsaved \cup {c})
          /\ Cardinality(Unsaved \cup {c}) <= Cardinality(Unsaved) + 1
          /\ Cardinality(Unsaved \cup {c}) \in Nat
      <3> DEFINE U == Unsaved
      <3>1. IsFiniteSet(U) /\ Cardinality(U) \in Nat BY UnsavedFinite
      <3> HIDE DEF U
      <3>2. /\ IsFiniteSet(U \cup {c}) /\ Cardinality(U \cup {c}) \in Nat
            /\ Cardinality(U \cup {c}) <= Cardinality(U) + 1
        BY <3>1, FS_AddElement, FS_CardinalityType
      <3> QED BY <3>2 DEF U
    <2>5. Cardinality(Unsaved)' <= Cardinality(Unsaved \cup {c}) /\ Cardinality(Unsaved)' \in Nat
      BY <2>3, <2>4, FS_Subset, FS_CardinalityType
    <2>6. SinceFlush = events /\ SinceFlush' = events + 1 /\ missed * MaxEvents \in Nat
      BY <2>1, <1>t DEF SinceFlush
    <2>7. Cardinality(Unsaved)' <= missed' * MaxEvents + SinceFlush'
      BY <2>1, <2>4, <2>5, <2>6, <1>t, UnsavedFinite DEF LossInv
    <2> QED BY <1>p, <1>t, <2>1, <2>7 DEF LossInv
  <1>5. CASE Advance
    <2>1. pc = "added" /\ pc' = "resume" /\ OnTradeProcessed /\ UNCHANGED window
      BY <1>5 DEF Advance
    <2>2. CASE row' = cursor /\ saved' = window /\ missed' = 0 /\ events' = 0
      <3>1. \A t \in Trades : window'[t] <= saved'[t]
        BY <2>1, <2>2, <1>t
      <3> QED BY <1>p, <1>t, <2>2, <3>1, NothingUnsaved
    <2>3. CASE missed' = missed + 1 /\ events' = 0 /\ UNCHANGED saved
      BY <1>p, <1>t, <2>1, <2>3, SameUnsaved
    <2>4. CASE ~MustFlush /\ events' = events + 1 /\ UNCHANGED durable
      <3>1. events' \in 0 .. MaxEvents - 1 /\ UNCHANGED <<saved, missed>>
        BY <2>4, <1>t DEF MustFlush, durable
      <3>2. SinceFlush' >= SinceFlush
        BY <2>1, <2>4, <1>t DEF SinceFlush
      <3> QED BY <1>p, <1>t, <2>1, <3>1, <3>2, SameUnsaved
    <2> QED BY <2>1, <2>2, <2>3, <2>4 DEF OnTradeProcessed, Flush
  <1>6. ASSUME Down PROVE LossInv'
    <2>1. pc' = "down" /\ events' = 0 BY <1>6 DEF Down
    <2> QED BY <1>p, <1>t, <2>1, NothingUnsaved
  <1>7. CASE Fail
    <2>1. UNCHANGED <<saved, missed>> /\ pc \in {"idle", "resume"}
      BY <1>7 DEF Fail, durable
    <2>2. CASE pc' = "idle" /\ UNCHANGED <<window, events>>
      <3>1. SinceFlush' >= SinceFlush
        BY <2>1, <2>2, <1>t DEF SinceFlush
      <3> QED BY <1>p, <1>t, <2>1, <2>2, <3>1, SameUnsaved
    <2> QED BY <1>6, <1>7, <2>2 DEF Fail
  <1>8. CASE Shutdown
    <2>1. pc # "down" /\ Flush(last, window) /\ UNCHANGED <<pc, window, events>>
      BY <1>8 DEF Shutdown
    <2>2. CASE saved' = window
      <3>1. \A t \in Trades : window'[t] <= saved'[t]
        BY <2>1, <2>2, <1>t
      <3> QED BY <1>p, <1>t, <2>1, <3>1, NothingUnsaved
    <2>3. CASE missed' = missed + 1 /\ UNCHANGED saved
      BY <1>p, <1>t, <2>1, <2>3, SameUnsaved
    <2> QED BY <2>1, <2>2, <2>3 DEF Flush
  <1>9. CASE CleanExit \/ Crash
    BY <1>6, <1>9 DEF CleanExit, Crash
  <1> QED BY <1>1, <1>2, <1>3, <1>4, <1>5, <1>7, <1>8, <1>9 DEF Next

\* The durability window (docs/ingestion.md): a crash takes at most max_events trades
\* out of the windows, and max_events more for each checkpoint in a row that could not
\* be written, whatever the policy flushes early and whenever signals arrive.
THEOREM StreamLossIsBounded == Spec => []LossIsBounded
  <1>1. LossInv /\ [Next]_vars => LossInv' BY StepLoss
  <1>2. LossInv => LossIsBounded
    <2> SUFFICES ASSUME LossInv PROVE LossIsBounded
      OBVIOUS
    <2>1. missed \in Nat /\ SinceFlush \in Nat /\ SinceFlush <= MaxEvents
      BY BoundsAssumption, PolicyAssumption DEF LossInv, Placed, TypeOK, SinceFlush
    <2>2. missed * MaxEvents \in Nat /\ (missed + 1) * MaxEvents = missed * MaxEvents + MaxEvents
      BY <2>1, PolicyAssumption
    <2> QED BY <2>1, <2>2, UnsavedFinite, PolicyAssumption DEF LossInv, LossIsBounded
  <1> QED BY <1>1, <1>2, InitLoss, PTL DEF Spec

-----------------------------------------------------------------------------
(* The replay buffer.                                                      *)

\* A finite set of numbers has its members at the places 1 .. Cardinality(S).
LEMMA AscendingFacts ==
  ASSUME NEW S, S \subseteq Nat, IsFiniteSet(S)
  PROVE  /\ Cardinality(S) \in Nat
         /\ \A i \in 1 .. Cardinality(S) : Ascending(S)[i] \in S
         /\ \A i, j \in 1 .. Cardinality(S) : i < j => Ascending(S)[i] < Ascending(S)[j]
         /\ \A t \in S : \E i \in 1 .. Cardinality(S) : Ascending(S)[i] = t
<1> DEFINE N == Cardinality(S)
           Place(t) == Cardinality(Smaller(S, t))
           f == [t \in S |-> Place(t)]
<1>1. N \in Nat
  BY FS_CardinalityType
<1>2. ASSUME NEW t \in S PROVE IsFiniteSet(Smaller(S, t)) /\ Place(t) \in Nat /\ Place(t) < N
  <2>1. Smaller(S, t) \in SUBSET S /\ t \notin Smaller(S, t)
    BY DEF Smaller
  <2>2. IsFiniteSet(Smaller(S, t)) /\ Place(t) <= N /\ (N = Place(t) => S = Smaller(S, t))
    BY <2>1, FS_Subset
  <2>3. Place(t) \in Nat
    BY <2>2, FS_CardinalityType
  <2>4. N # Place(t)
    BY <2>1, <2>2
  <2> HIDE DEF Place, N
  <2> QED BY <1>1, <2>2, <2>3, <2>4
<1>3. ASSUME NEW t \in S, NEW u \in S, t < u PROVE Place(t) < Place(u)
  <2>1. Smaller(S, t) \in SUBSET Smaller(S, u) /\ t \in Smaller(S, u) /\ t \notin Smaller(S, t)
    <3>1. t \in Smaller(S, u) /\ t \notin Smaller(S, t)
      BY <1>3 DEF Smaller
    <3>2. ASSUME NEW v \in Smaller(S, t) PROVE v \in Smaller(S, u)
      <4>1. v \in S /\ v < t /\ v \in Nat /\ t \in Nat /\ u \in Nat
        BY DEF Smaller
      <4>2. v < u
        BY <1>3, <4>1
      <4> QED BY <4>1, <4>2 DEF Smaller
    <3> QED BY <3>1, <3>2
  <2>2. Place(t) <= Place(u) /\ (Place(u) = Place(t) => Smaller(S, u) = Smaller(S, t))
    BY <1>2, <2>1, FS_Subset
  <2>3. Place(t) # Place(u) /\ Place(t) \in Nat /\ Place(u) \in Nat
    BY <1>2, <2>1, <2>2
  <2> HIDE DEF Place
  <2> QED BY <2>2, <2>3
<1> HIDE DEF Place
<1>4. ASSUME NEW t \in S, NEW u \in S, Place(t) = Place(u) PROVE t = u
  <2>1. ~(t < u) /\ ~(u < t)
    BY <1>2, <1>3, <1>4
  <2> QED BY <2>1
<1>5. f \in Injection(S, 0 .. N - 1)
  <2>1. \A t \in S : Place(t) \in 0 .. N - 1
    BY <1>1, <1>2
  <2>2. f \in [S -> 0 .. N - 1]
    BY <2>1
  <2>3. \A t, u \in S : f[t] = f[u] => t = u
    BY <1>4
  <2> HIDE DEF f, N
  <2> QED BY <2>2, <2>3 DEF Injection, IsInjective
<1>6. IsFiniteSet(0 .. N - 1) /\ Cardinality(0 .. N - 1) = N
  <2>1. 0 \in Int /\ N - 1 \in Int
    BY <1>1
  <2>2. /\ IsFiniteSet(0 .. N - 1)
        /\ Cardinality(0 .. N - 1) = IF 0 > N - 1 THEN 0 ELSE (N - 1) - 0 + 1
    BY <2>1, FS_Interval
  <2> HIDE DEF N
  <2> QED BY <1>1, <2>2
<1>7. f \in Surjection(S, 0 .. N - 1)
  <2> HIDE DEF f
  <2> QED BY <1>5, <1>6, FS_Injection
<1>8. ASSUME NEW i \in 1 .. N PROVE \E t \in S : Place(t) = i - 1
  <2>1. i - 1 \in 0 .. N - 1
    BY <1>1
  <2>2. \E t \in S : f[t] = i - 1
    <3> HIDE DEF f
    <3> QED BY <1>7, <2>1 DEF Surjection
  <2> QED BY <2>2
<1>9. ASSUME NEW i \in 1 .. N PROVE Ascending(S)[i] \in S /\ Place(Ascending(S)[i]) = i - 1
  <2>1. Ascending(S)[i] = CHOOSE t \in S : Place(t) = i - 1
    BY DEF Ascending, Place
  <2> QED BY <1>8, <2>1
<1>10. ASSUME NEW i \in 1 .. N, NEW j \in 1 .. N, i < j PROVE Ascending(S)[i] < Ascending(S)[j]
  <2> DEFINE a == Ascending(S)[i]
             b == Ascending(S)[j]
  <2>1. a \in S /\ b \in S /\ Place(a) = i - 1 /\ Place(b) = j - 1
    BY <1>9
  <2> HIDE DEF a, b
  <2>2. Place(a) < Place(b)
    BY <1>1, <1>10, <2>1
  <2>3. ~(b < a) /\ a # b
    BY <1>2, <1>3, <2>1, <2>2
  <2>4. a < b
    BY <2>1, <2>3
  <2> QED BY <2>4 DEF a, b
<1>11. ASSUME NEW t \in S PROVE \E i \in 1 .. N : Ascending(S)[i] = t
  <2>1. PICK i \in 1 .. N : Place(t) = i - 1
    <3>1. Place(t) + 1 \in 1 .. N /\ Place(t) = (Place(t) + 1) - 1
      BY <1>1, <1>2
    <3> QED BY <3>1
  <2> QED BY <1>4, <1>9, <2>1
<1> QED BY <1>1, <1>9, <1>10, <1>11

LEMMA TokensFinite ==
  Held \in SUBSET ReplayTokens /\ IsFiniteSet(ReplayTokens) /\ Held \subseteq Nat
<1>1. MaxToken \in Nat
  BY ReplayAssumption
<1>2. Odd \in Int /\ 1 \in Int /\ ReplayTokens \subseteq Nat
  BY <1>1 DEF Odd, ReplayTokens
<1>3. IsFiniteSet(ReplayTokens)
  BY <1>2, FS_Interval DEF ReplayTokens
<1>4. Held \in SUBSET ReplayTokens
  BY DEF Held
<1> QED BY <1>2, <1>3, <1>4

\* Whatever is still buffered behind something that left has come late.
HeldCameLate ==
    \A t \in Held : \A i \in DOMAIN replayOut : replayOut[i] > t => t \in late

ReplayInv == ReplayTypeOK /\ DisorderMeansLate /\ HeldCameLate

LEMMA EmitKeepsOrder ==
  ASSUME ReplayInv, NEW k \in 1 .. Cardinality(Held), Emit(k)
  PROVE  ReplayInv'
<1> USE ReplayAssumption
<1> DEFINE s == Sorted
           N == Cardinality(Held)
           L == Len(replayOut)
<1>a. /\ held \in [ReplayTokens -> 0 .. MaxIngests] /\ due \in 0 .. MaxIngests
      /\ replayOut \in Seq(ReplayTokens) /\ late \subseteq ReplayTokens /\ ingests \in 0 .. MaxIngests
      /\ L \in Nat
  BY DEF ReplayInv, ReplayTypeOK
<1>1. /\ N \in Nat /\ \A i \in 1 .. N : s[i] \in Held
      /\ \A i, j \in 1 .. N : i < j => s[i] < s[j]
      /\ \A t \in Held : \E i \in 1 .. N : s[i] = t
  <2>1. Held \in SUBSET ReplayTokens /\ IsFiniteSet(ReplayTokens) /\ Held \subseteq Nat
    BY TokensFinite
  <2>2. IsFiniteSet(Held)
    BY <2>1, FS_Subset
  <2> QED BY <2>1, <2>2, AscendingFacts DEF Sorted
<1>2. Held \subseteq ReplayTokens /\ ReplayTokens \subseteq Nat
  BY DEF Held, ReplayTokens, Odd
<1>3. /\ replayOut' = replayOut \o SubSeq(s, 1, k) /\ replayLast' = s[k]
      /\ held' = [t \in ReplayTokens |-> IF \E i \in 1 .. k : s[i] = t THEN 0 ELSE held[t]]
      /\ UNCHANGED <<due, late, ingests>>
  BY DEF Emit
<1>4. s \in Seq(ReplayTokens) /\ Len(s) = N
  <2>1. s \in [1 .. N -> ReplayTokens]
    <3>1. DOMAIN s = 1 .. N /\ s = [i \in 1 .. N |-> s[i]]
      BY DEF Sorted, Ascending
    <3> HIDE DEF s, N
    <3> QED BY <1>1, <1>2, <3>1
  <2> HIDE DEF s, N
  <2> QED BY <1>1, <2>1
<1> HIDE DEF s
<1>5. k \in 1 .. N /\ k \in Nat /\ k <= N
  BY <1>1
<1> HIDE DEF N
<1>6. /\ SubSeq(s, 1, k) \in Seq(ReplayTokens) /\ Len(SubSeq(s, 1, k)) = k
      /\ \A i \in 1 .. k : SubSeq(s, 1, k)[i] = s[i]
  BY <1>1, <1>4, <1>5
<1>7. /\ replayOut' \in Seq(ReplayTokens) /\ DOMAIN replayOut' = 1 .. L + k
      /\ \A i \in 1 .. L : replayOut'[i] = replayOut[i]
      /\ \A i \in 1 .. L + k : i > L => replayOut'[i] = s[i - L] /\ i - L \in 1 .. k
  <2> DEFINE b == SubSeq(s, 1, k)
  <2> HIDE DEF b
  <2>1. b \in Seq(ReplayTokens) /\ Len(b) = k /\ \A i \in 1 .. k : b[i] = s[i]
    BY <1>6 DEF b
  <2>2. replayOut' = replayOut \o b
    BY <1>3 DEF b
  <2>3. replayOut' \in Seq(ReplayTokens) /\ Len(replayOut') = L + k
    BY <1>a, <2>1, <2>2
  <2>4. \A i \in 1 .. L : replayOut'[i] = replayOut[i]
    BY <1>a, <2>1, <2>2
  <2>5. ASSUME NEW i \in 1 .. L + k, i > L PROVE replayOut'[i] = s[i - L] /\ i - L \in 1 .. k
    <3>1. i - L \in 1 .. k
      BY <1>a, <1>5, <2>5
    <3>2. replayOut'[i] = b[i - L]
      BY <1>a, <1>5, <2>1, <2>2, <2>5
    <3> QED BY <2>1, <3>1, <3>2
  <2>6. DOMAIN replayOut' = 1 .. L + k
    BY <2>3
  <2> QED BY <2>3, <2>4, <2>5, <2>6
<1>8. DOMAIN replayOut = 1 .. L
  BY <1>a
<1> HIDE DEF L
<1>9. 1 .. k \subseteq 1 .. N
  BY <1>1, <1>5
<1>10. ReplayTypeOK'
  <2>1. s[k] \in ReplayTokens
    BY <1>1, <1>2, <1>5
  <2>2. held' \in [ReplayTokens -> 0 .. MaxIngests]
    <3>1. 0 \in 0 .. MaxIngests
      OBVIOUS
    <3> QED BY <1>a, <1>3, <3>1
  <2> QED BY <1>a, <1>3, <1>7, <2>1, <2>2 DEF ReplayTypeOK, ReplayTokens, Odd
<1>11. ASSUME NEW t \in Held' PROVE t \in Held /\ \A i \in 1 .. k : s[i] < t
  <2>1. t \in ReplayTokens /\ held'[t] # 0
    BY <1>11 DEF Held, ReplayTokens, Odd
  <2>2. ~(\E i \in 1 .. k : s[i] = t) /\ held[t] # 0
    BY <1>3, <2>1
  <2>3. t \in Held
    BY <2>1, <2>2 DEF Held
  <2>4. PICK j \in 1 .. N : s[j] = t
    BY <1>1, <2>3
  <2>5. ASSUME NEW i \in 1 .. k PROVE i < j
    BY <1>1, <1>5, <2>2, <2>4
  <2> QED BY <1>1, <1>9, <2>3, <2>4, <2>5
<1>12. HeldCameLate'
  <2>1. ASSUME NEW t \in Held', NEW i \in 1 .. L + k, replayOut'[i] > t PROVE t \in late
    <3>1. t \in Held /\ t \in Nat /\ \A m \in 1 .. k : s[m] < t
      BY <1>2, <1>11
    <3>2. CASE i <= L
      <4>1. i \in 1 .. L /\ replayOut[i] > t
        BY <1>a, <1>7, <2>1, <3>2
      <4> QED BY <1>8, <3>1, <4>1 DEF ReplayInv, HeldCameLate
    <3>3. CASE i > L
      <4>1. replayOut'[i] = s[i - L] /\ i - L \in 1 .. k
        BY <1>7, <3>3
      <4>2. s[i - L] < t /\ s[i - L] > t /\ s[i - L] \in Nat
        BY <1>1, <1>2, <1>9, <2>1, <3>1, <4>1
      <4> QED BY <3>1, <4>2
    <3> QED BY <1>a, <3>2, <3>3
  <2> QED BY <1>3, <1>7, <2>1 DEF HeldCameLate
<1>13. DisorderMeansLate'
  <2>1. ASSUME NEW i \in 1 .. L + k, NEW j \in 1 .. L + k, i < j, replayOut'[i] > replayOut'[j]
        PROVE  replayOut'[j] \in late
    <3>1. CASE j <= L
      <4>1. i \in 1 .. L /\ j \in 1 .. L
        BY <1>a, <2>1, <3>1
      <4> QED BY <1>7, <1>8, <2>1, <4>1 DEF ReplayInv, DisorderMeansLate
    <3>2. CASE j > L
      <4>1. replayOut'[j] = s[j - L] /\ j - L \in 1 .. k /\ s[j - L] \in Held
        BY <1>1, <1>7, <1>9, <3>2
      <4>2. CASE i <= L
        <5>1. i \in 1 .. L /\ replayOut[i] > s[j - L]
          BY <1>a, <1>7, <2>1, <4>1, <4>2
        <5> QED BY <1>8, <4>1, <5>1 DEF ReplayInv, HeldCameLate
      <4>3. CASE i > L
        <5>1. replayOut'[i] = s[i - L] /\ i - L \in 1 .. k /\ i - L < j - L
          BY <1>a, <1>7, <2>1, <4>3
        <5>2. s[i - L] < s[j - L] /\ s[i - L] \in Nat /\ s[j - L] \in Nat
          BY <1>1, <1>2, <1>9, <4>1, <5>1
        <5> QED BY <2>1, <4>1, <5>1, <5>2
      <4> QED BY <1>a, <4>2, <4>3
    <3> QED BY <1>a, <3>1, <3>2
  <2> QED BY <1>3, <1>7, <2>1 DEF DisorderMeansLate
<1> QED BY <1>10, <1>12, <1>13 DEF ReplayInv

LEMMA ReplayNextInv == ReplayInv /\ [ReplayNext]_replayVars => ReplayInv'
<1> SUFFICES ASSUME ReplayInv, [ReplayNext]_replayVars PROVE ReplayInv'
  OBVIOUS
<1> USE ReplayAssumption
<1>a. ReplayTypeOK /\ DisorderMeansLate /\ HeldCameLate
  BY DEF ReplayInv
<1>b. Cardinality(Held) \in Nat
  <2>1. Held \in SUBSET ReplayTokens /\ IsFiniteSet(ReplayTokens)
    BY TokensFinite
  <2> QED BY <2>1, FS_Subset, FS_CardinalityType
<1>1. ASSUME NEW t \in ReplayTokens, Ingest(t) PROVE ReplayInv'
  <2>1. /\ ingests < MaxIngests /\ ingests' = ingests + 1 /\ UNCHANGED <<replayLast, replayOut>>
        /\ IF t \in Held
             THEN UNCHANGED <<held, due, late>>
             ELSE /\ held' = [held EXCEPT ![t] = ingests + 1]
                  /\ due' = IF Cardinality(Held) + 1 >= MaxSize THEN ingests + 1 ELSE due
                  /\ late' = IF \E i \in DOMAIN replayOut : replayOut[i] > t THEN late \cup {t} ELSE late
    BY <1>1 DEF Ingest
  <2>2. /\ ingests' \in 0 .. MaxIngests /\ ingests + 1 \in 0 .. MaxIngests /\ ingests + 1 # 0
    BY <1>a, <2>1 DEF ReplayTypeOK
  <2>3. late \subseteq late' /\ late' \subseteq ReplayTokens
    BY <1>a, <1>1, <2>1 DEF ReplayTypeOK
  <2>4. /\ held' \in [ReplayTokens -> 0 .. MaxIngests] /\ due' \in 0 .. MaxIngests
    BY <1>a, <2>1, <2>2 DEF ReplayTypeOK
  <2>5. ReplayTypeOK'
    BY <1>a, <2>1, <2>2, <2>3, <2>4 DEF ReplayTypeOK, ReplayTokens, Odd
  <2>6. DisorderMeansLate'
    BY <1>a, <2>1, <2>3 DEF DisorderMeansLate
  <2>7. HeldCameLate'
    <3>1. ASSUME NEW u \in Held', NEW i \in DOMAIN replayOut, replayOut[i] > u PROVE u \in late'
      <4>1. u \in ReplayTokens /\ held'[u] # 0
        BY <3>1 DEF Held, ReplayTokens, Odd
      <4>2. CASE u \in Held
        BY <1>a, <2>3, <3>1, <4>2 DEF HeldCameLate
      <4>3. CASE u \notin Held
        <5>1. held[u] = 0
          BY <4>1, <4>3 DEF Held
        <5>2. u = t /\ t \notin Held
          BY <1>a, <2>1, <4>1, <4>3, <5>1 DEF ReplayTypeOK
        <5> QED BY <2>1, <3>1, <5>2
      <4> QED BY <4>2, <4>3
    <3> QED BY <2>1, <3>1 DEF HeldCameLate
  <2> QED BY <2>5, <2>6, <2>7 DEF ReplayInv
<1>2. CASE GrowOverdue
  <2>1. /\ due < ingests /\ due' = due + 1 /\ UNCHANGED <<held, replayLast, replayOut, late, ingests>>
    BY <1>2 DEF GrowOverdue
  <2>2. due' \in 0 .. MaxIngests
    BY <1>a, <2>1 DEF ReplayTypeOK
  <2> QED BY <1>a, <2>1, <2>2 DEF ReplayInv, ReplayTypeOK, ReplayTokens, Odd, DisorderMeansLate, HeldCameLate, Held
<1>3. CASE Drain
  BY <1>3, EmitKeepsOrder DEF Drain
<1>4. CASE FlushAll
  <2>1. Cardinality(Held) \in 1 .. Cardinality(Held)
    BY <1>b, <1>4 DEF FlushAll, Emit
  <2> QED BY <1>4, <2>1, EmitKeepsOrder DEF FlushAll
<1>5. CASE UNCHANGED replayVars
  BY <1>a, <1>5 DEF replayVars, ReplayInv, ReplayTypeOK, ReplayTokens, Odd, DisorderMeansLate, HeldCameLate, Held
<1> QED BY <1>1, <1>2, <1>3, <1>4, <1>5 DEF ReplayNext

(* replay_buffer.py: for any tokens, size of the buffer and number of        *)
(* events, an event leaves behind a larger token only if it arrived after    *)
(* that one had left.                                                        *)
THEOREM DisorderAlwaysLate == ReplaySpec => [](ReplayTypeOK /\ DisorderMeansLate)
<1>1. ReplayInit => ReplayInv
  <2> SUFFICES ASSUME ReplayInit PROVE ReplayInv
    OBVIOUS
  <2>1. 0 \in 0 .. MaxIngests /\ DOMAIN replayOut = {} /\ replayOut \in Seq(ReplayTokens)
    BY ReplayAssumption DEF ReplayInit
  <2>2. ReplayTypeOK
    BY <2>1 DEF ReplayInit, ReplayTypeOK, ReplayNone
  <2> QED BY <2>1, <2>2 DEF ReplayInv, DisorderMeansLate, HeldCameLate
<1>2. ReplayInv => ReplayTypeOK /\ DisorderMeansLate
  BY DEF ReplayInv
<1> QED BY <1>1, <1>2, ReplayNextInv, PTL DEF ReplaySpec

-----------------------------------------------------------------------------
(* The event bus.                                                          *)

LEMMA LeastNatural ==
  ASSUME NEW S, S \subseteq Nat, S # {}
  PROVE  \E i \in S : \A j \in S : i <= j
<1> DEFINE R == OpToRel(<, Nat)
<1>1. PICK i \in S : \A j \in S : <<j, i>> \notin R
  <2>1. IsWellFoundedOn(R, Nat)
    BY NatLessThanWellFounded
  <2> HIDE DEF R
  <2> QED BY <2>1, WFMin
<1>2. \A j \in S : ~(j < i)
  BY <1>1 DEF OpToRel
<1> HIDE DEF R
<1>3. i \in Nat /\ \A j \in S : j \in Nat /\ ~(j < i)
  BY <1>2
<1> QED BY <1>3

\* A row about to be removed was sent.
SentArrived ==
    \A r \in BusReplayers : replay[r].sent # 0 =>
        replay[r].sent \in broker \cup (IF backend = "kafka" THEN expired ELSE {})

BusInv == BusTypeOK /\ FailedEventKept /\ SentArrived

LEMMA BusNextInv == BusInv /\ [BusNext]_busVars => BusInv'
<1> SUFFICES ASSUME BusInv, [BusNext]_busVars PROVE BusInv'
  OBVIOUS
<1> USE BusAssumption
<1> DEFINE Rows == [left : SUBSET Events, sent : {0} \cup Events]
<1>a. BusTypeOK /\ FailedEventKept /\ SentArrived
  BY DEF BusInv
<1>b. /\ backend \in {"kafka", "nats"} /\ up \in BOOLEAN
      /\ next \in 1 .. BusMaxEvents + 1 /\ attempt \in 0 .. MaxRetries - 1
      /\ busBuffer \subseteq Events /\ broker \subseteq Events /\ busFailed \subseteq Events
      /\ refused \subseteq Events /\ store \subseteq Events /\ notStored \subseteq Events
      /\ expired \subseteq Events /\ replay \in [BusReplayers -> Rows]
  BY <1>a DEF BusTypeOK
<1>c. ASSUME /\ backend' = backend /\ up' \in BOOLEAN
             /\ next' \in 1 .. BusMaxEvents + 1 /\ attempt' \in 0 .. MaxRetries - 1
             /\ busBuffer' \subseteq Events /\ broker' \subseteq Events /\ busFailed' \subseteq Events
             /\ refused' \subseteq Events /\ store' \subseteq Events /\ notStored' \subseteq Events
             /\ expired' \subseteq Events /\ replay' \in [BusReplayers -> Rows]
      PROVE  BusTypeOK'
  BY <1>b, <1>c, Zenon DEF BusTypeOK, Events
<1>d. ASSUME /\ backend' = backend /\ broker \subseteq broker' /\ refused \subseteq refused'
             /\ store \subseteq store' /\ notStored \subseteq notStored' /\ expired \subseteq expired'
             /\ busFailed' \subseteq busFailed \cup store' \cup refused' \cup notStored'
      PROVE  FailedEventKept'
  BY <1>a, <1>d DEF FailedEventKept
<1>e. ASSUME /\ backend' = backend /\ broker \subseteq broker' /\ expired \subseteq expired'
             /\ \A r \in BusReplayers : replay'[r].sent # 0 => replay'[r].sent = replay[r].sent
      PROVE  SentArrived'
  BY <1>a, <1>e DEF SentArrived
<1>1. CASE PublishOffline
  <2>1. next .. BusMaxEvents \subseteq Events /\ BusMaxEvents + 1 \in 1 .. BusMaxEvents + 1
    BY <1>b DEF Events
  <2>2. BusTypeOK'
    BY <1>1, <1>b, <1>c, <2>1 DEF PublishOffline
  <2>3. FailedEventKept' /\ SentArrived'
    BY <1>1, <1>d, <1>e DEF PublishOffline
  <2> QED BY <2>2, <2>3 DEF BusInv
<1>2. CASE PublishAccepted
  <2>1. next \in Events /\ next + 1 \in 1 .. BusMaxEvents + 1 /\ 0 \in 0 .. MaxRetries - 1
    BY <1>2, <1>b DEF Events, PublishAccepted
  <2>2. BusTypeOK'
    BY <1>2, <1>b, <1>c, <2>1 DEF PublishAccepted
  <2>3. FailedEventKept' /\ SentArrived'
    BY <1>2, <1>d, <1>e DEF PublishAccepted
  <2> QED BY <2>2, <2>3 DEF BusInv
<1>3. CASE PublishRaises
  <2>1. /\ next \in Events /\ next + 1 \in 1 .. BusMaxEvents + 1 /\ 0 \in 0 .. MaxRetries - 1
        /\ attempt # MaxRetries - 1 => attempt + 1 \in 0 .. MaxRetries - 1
    BY <1>3, <1>b DEF Events, PublishRaises
  <2>2. /\ broker \subseteq broker' /\ broker' \subseteq Events
        /\ UNCHANGED <<backend, up, busBuffer, refused, expired, replay>>
    BY <1>3, <1>b, <2>1 DEF PublishRaises
  <2>3. CASE attempt = MaxRetries - 1
    <3>1. /\ GiveUp /\ next' = next + 1 /\ attempt' = 0
      BY <1>3, <2>3 DEF PublishRaises
    <3>2. /\ busFailed' = busFailed \cup {next} /\ store' \subseteq store \cup {next} /\ store \subseteq store'
          /\ notStored' \subseteq notStored \cup {next} /\ notStored \subseteq notStored'
          /\ next \in store' \cup notStored'
      BY <3>1 DEF GiveUp
    <3>3. BusTypeOK'
      BY <1>b, <1>c, <2>1, <2>2, <3>1, <3>2
    <3>4. FailedEventKept' /\ SentArrived'
      BY <1>d, <1>e, <2>2, <3>2
    <3> QED BY <3>3, <3>4 DEF BusInv
  <2>4. CASE attempt # MaxRetries - 1
    <3>1. /\ attempt' = attempt + 1 /\ UNCHANGED <<next, busFailed, store, notStored>>
      BY <1>3, <2>4 DEF PublishRaises
    <3>2. BusTypeOK'
      BY <1>b, <1>c, <2>1, <2>2, <2>4, <3>1
    <3>3. FailedEventKept' /\ SentArrived'
      BY <1>d, <1>e, <2>2, <3>1
    <3> QED BY <3>2, <3>3 DEF BusInv
  <2> QED BY <2>3, <2>4
<1>4. ASSUME NEW e \in Events, KafkaReport(e) PROVE BusInv'
  <2>1. BusTypeOK'
    BY <1>4, <1>b, <1>c DEF KafkaReport
  <2>2. FailedEventKept' /\ SentArrived'
    BY <1>4, <1>d, <1>e DEF KafkaReport
  <2> QED BY <2>1, <2>2 DEF BusInv
<1>5. CASE PublisherDies
  <2>1. BusTypeOK'
    BY <1>5, <1>b, <1>c DEF PublisherDies
  <2>2. FailedEventKept' /\ SentArrived'
    BY <1>5, <1>d, <1>e DEF PublisherDies
  <2> QED BY <2>1, <2>2 DEF BusInv
<1>6. ASSUME NEW r \in BusReplayers, ReplayReads(r) PROVE BusInv'
  <2>1. /\ replay' = [replay EXCEPT ![r] = [@ EXCEPT !.left = store]]
        /\ UNCHANGED <<backend, up, next, attempt, busBuffer, broker, busFailed, refused, store,
                       notStored, expired>>
    BY <1>6 DEF ReplayReads
  <2>2. replay' \in [BusReplayers -> Rows] /\ \A q \in BusReplayers : replay'[q].sent = replay[q].sent
    BY <1>b, <2>1
  <2>3. BusTypeOK'
    BY <1>b, <1>c, <2>1, <2>2
  <2>4. FailedEventKept' /\ SentArrived'
    BY <1>d, <1>e, <2>1, <2>2
  <2> QED BY <2>3, <2>4 DEF BusInv
<1>7. ASSUME NEW r \in BusReplayers, ReplaySends(r) PROVE BusInv'
  <2> DEFINE e == Oldest(replay[r].left)
  <2>0. replay[r].left \subseteq Events /\ replay[r].left # {} /\ replay[r].left \subseteq Nat
    BY <1>7, <1>b DEF ReplaySends, Events
  <2>1. e \in replay[r].left
    BY <2>0, LeastNatural DEF Oldest
  <2>2. e \in Events /\ e # 0
    BY <2>0, <2>1 DEF Events
  <2>3. /\ UNCHANGED <<backend, up, next, attempt, busBuffer, busFailed, refused, notStored, store>>
        /\ \/ /\ broker' = broker \cup {e} /\ UNCHANGED expired
              /\ replay' = [replay EXCEPT ![r] = [left |-> replay[r].left \ {e}, sent |-> e]]
           \/ /\ backend = "kafka" /\ expired' = expired \cup {e} /\ UNCHANGED broker
              /\ replay' = [replay EXCEPT ![r] = [left |-> replay[r].left \ {e}, sent |-> e]]
           \/ /\ UNCHANGED <<broker, expired>>
              /\ replay' = [replay EXCEPT ![r].left = @ \ {e}]
    BY <1>7, <1>b DEF ReplaySends, SendRaw
  <2> HIDE DEF e
  <2>4. /\ broker \subseteq broker' /\ broker' \subseteq Events
        /\ expired \subseteq expired' /\ expired' \subseteq Events
    BY <1>b, <2>2, <2>3
  <2>5. replay' \in [BusReplayers -> Rows]
    <3>1. replay[r].left \ {e} \in SUBSET Events /\ replay[r].sent \in {0} \cup Events
      BY <1>b, <2>0
    <3>2. [left |-> replay[r].left \ {e}, sent |-> e] \in Rows
      BY <2>2, <3>1
    <3>3. [replay[r] EXCEPT !.left = replay[r].left \ {e}] \in Rows
      BY <1>b, <3>1
    <3>4. \/ replay' = [replay EXCEPT ![r] = [left |-> replay[r].left \ {e}, sent |-> e]]
          \/ replay' = [replay EXCEPT ![r] = [replay[r] EXCEPT !.left = replay[r].left \ {e}]]
      BY <2>3
    <3> HIDE DEF Rows
    <3> QED BY <1>b, <3>2, <3>3, <3>4
  <2>6. ASSUME NEW q \in BusReplayers, replay'[q].sent # 0
        PROVE  replay'[q].sent \in broker' \cup (IF backend' = "kafka" THEN expired' ELSE {})
    <3>1. replay'[q].sent = replay[q].sent \/ (q = r /\ replay'[q].sent = e)
      BY <1>b, <2>3
    <3>2. CASE replay'[q].sent = replay[q].sent
      BY <1>a, <2>3, <2>4, <2>6, <3>2 DEF SentArrived
    <3>3. CASE q = r /\ replay'[q].sent = e /\ replay'[q].sent # replay[q].sent
      <4>1. e \in broker' \/ (backend' = "kafka" /\ e \in expired')
        BY <1>b, <2>3, <3>3
      <4> QED BY <3>3, <4>1
    <3> QED BY <3>1, <3>2, <3>3
  <2>7. BusTypeOK'
    BY <1>b, <1>c, <2>3, <2>4, <2>5
  <2>8. FailedEventKept' /\ SentArrived'
    BY <1>d, <2>3, <2>4, <2>6 DEF SentArrived
  <2> QED BY <2>7, <2>8 DEF BusInv
<1>8. ASSUME NEW r \in BusReplayers, ReplayRemoves(r) PROVE BusInv'
  <2>1. /\ store' = store \ {replay[r].sent} /\ replay[r].sent # 0
        /\ replay' = [replay EXCEPT ![r] = [@ EXCEPT !.sent = 0]]
        /\ UNCHANGED <<backend, up, next, attempt, busBuffer, broker, busFailed, refused, notStored, expired>>
    BY <1>8 DEF ReplayRemoves
  <2>2. /\ replay' \in [BusReplayers -> Rows]
        /\ \A q \in BusReplayers : replay'[q].sent # 0 => replay'[q].sent = replay[q].sent
    BY <1>b, <2>1
  <2>3. BusTypeOK'
    BY <1>b, <1>c, <2>1, <2>2
  <2>4. SentArrived'
    BY <1>e, <2>1, <2>2
  <2>5. FailedEventKept'
    <3>1. replay[r].sent \in broker \cup (IF backend = "kafka" THEN expired ELSE {})
      BY <1>a, <2>1 DEF SentArrived
    <3> QED BY <1>a, <2>1, <3>1 DEF FailedEventKept
  <2> QED BY <2>3, <2>4, <2>5 DEF BusInv
<1>9. ASSUME NEW r \in BusReplayers, ReplayerDies(r) PROVE BusInv'
  <2>1. /\ replay' = [replay EXCEPT ![r] = Resting]
        /\ UNCHANGED <<backend, up, next, attempt, busBuffer, broker, busFailed, refused, store,
                       notStored, expired>>
    BY <1>9 DEF ReplayerDies
  <2>2. /\ replay' \in [BusReplayers -> Rows]
        /\ \A q \in BusReplayers : replay'[q].sent # 0 => replay'[q].sent = replay[q].sent
    BY <1>b, <2>1 DEF Resting
  <2>3. BusTypeOK'
    BY <1>b, <1>c, <2>1, <2>2
  <2>4. FailedEventKept' /\ SentArrived'
    BY <1>d, <1>e, <2>1, <2>2
  <2> QED BY <2>3, <2>4 DEF BusInv
<1>10. CASE UNCHANGED busVars
  <2>1. BusTypeOK'
    BY <1>10, <1>b, <1>c DEF busVars
  <2>2. FailedEventKept' /\ SentArrived'
    BY <1>10, <1>d, <1>e DEF busVars
  <2> QED BY <2>1, <2>2 DEF BusInv
<1> QED BY <1>1, <1>2, <1>3, <1>4, <1>5, <1>6, <1>7, <1>8, <1>9, <1>10 DEF BusNext

(* event_bus.py: for any number of events, retries and replaying processes,  *)
(* an event whose publication failed stays in the dead-letter store until    *)
(* the broker has it.                                                        *)
THEOREM FailedEventsAlwaysKept == BusSpec => [](BusTypeOK /\ FailedEventKept)
<1>1. BusInit => BusInv
  <2>1. BusInit => BusTypeOK
    BY BusAssumption DEF BusInit, BusTypeOK, Resting, Events
  <2>2. BusInit => FailedEventKept /\ SentArrived
    BY DEF BusInit, FailedEventKept, SentArrived, Resting
  <2> QED BY <2>1, <2>2 DEF BusInv
<1>2. BusInv => BusTypeOK /\ FailedEventKept
  BY DEF BusInv
<1> QED BY <1>1, <1>2, BusNextInv, PTL DEF BusSpec

-----------------------------------------------------------------------------
(* The scoring pipeline.                                                   *)

\* What a streaming run has read is stored, or waits in its buffer.
ReadIsHeld == 1 .. pipeLast \subseteq stored \cup pipeBuffer

\* What is announced at each stage was stored before it.
StoredFirst ==
    /\ pipePc \in {"fstore", "fpublish", "fcursor"} => scored = pipeBuffer
    /\ pipePc \in {"publish", "rings", "vectors", "hooks", "chain", "fpublish", "fcursor"} =>
          scored \subseteq stored

PipeInv == PipeTypeOK /\ NothingAheadOfStorage /\ ReadIsHeld /\ StoredFirst

LEMMA PipeTyped ==
  PipeTypeOK <=>
    /\ mode \in {"run", "multi", "async", "stream"} /\ submit \in BOOLEAN
    /\ pipePc \in Stages /\ quitting \in BOOLEAN /\ pipeLast \in 0 .. MaxItem /\ pipeCursor \in 0 .. MaxItem
    /\ high \subseteq Items /\ todo \subseteq Items /\ preloaded \subseteq Items /\ scored \subseteq Items
    /\ pipeBuffer \subseteq Items /\ sideRows \subseteq Items /\ stored \subseteq Items /\ bus \subseteq Items
    /\ rings \subseteq Items /\ vectors \subseteq Items /\ hooks \subseteq Items /\ chain \subseteq Items
    /\ runs \in 0 .. MaxRuns
BY Zenon DEF PipeTypeOK

LEMMA PipeNextTyped == PipeTypeOK /\ [PipeNext]_pipeVars => PipeTypeOK'
<1> SUFFICES ASSUME PipeTypeOK, [PipeNext]_pipeVars PROVE PipeTypeOK'
  OBVIOUS
<1>a. /\ mode \in {"run", "multi", "async", "stream"} /\ submit \in BOOLEAN
      /\ pipePc \in Stages /\ quitting \in BOOLEAN /\ pipeLast \in 0 .. MaxItem /\ pipeCursor \in 0 .. MaxItem
      /\ high \subseteq Items /\ todo \subseteq Items /\ preloaded \subseteq Items /\ scored \subseteq Items
      /\ pipeBuffer \subseteq Items /\ sideRows \subseteq Items /\ stored \subseteq Items /\ bus \subseteq Items
      /\ rings \subseteq Items /\ vectors \subseteq Items /\ hooks \subseteq Items /\ chain \subseteq Items
      /\ runs \in 0 .. MaxRuns
  BY PipeTyped
<1>b. SUFFICES
      /\ mode' \in {"run", "multi", "async", "stream"} /\ submit' \in BOOLEAN
      /\ pipePc' \in Stages /\ quitting' \in BOOLEAN /\ pipeLast' \in 0 .. MaxItem /\ pipeCursor' \in 0 .. MaxItem
      /\ high' \subseteq Items /\ todo' \subseteq Items /\ preloaded' \subseteq Items /\ scored' \subseteq Items
      /\ pipeBuffer' \subseteq Items /\ sideRows' \subseteq Items /\ stored' \subseteq Items /\ bus' \subseteq Items
      /\ rings' \subseteq Items /\ vectors' \subseteq Items /\ hooks' \subseteq Items /\ chain' \subseteq Items
      /\ runs' \in 0 .. MaxRuns
  BY Zenon DEF PipeTypeOK, Items
<1> USE DEF cfg, memory, announced, Goto, Stages
<1>1. CASE PipeStart
  <2>1. runs' \in 0 .. MaxRuns
    BY <1>1, <1>a, PipeAssumption DEF PipeStart
  <2>2. pipePc' \in {"preload", "read", "load"}
    BY <1>1 DEF PipeStart
  <2> QED BY <1>1, <1>a, <2>1, <2>2 DEF PipeStart
<1>2. CASE Dies \/ AfterLoop \/ AsyncSaveRings
  BY <1>2, <1>a DEF Dies, AfterLoop, AsyncSaveRings
<1>3. CASE Preload \/ ScorePair \/ AsyncScorePair
  BY <1>3, <1>a DEF Preload, PairScored, ScorePair, AsyncScorePair
<1>4. ASSUME NEW p \in Items, NEW b \in BOOLEAN, TakePair(p, b)
      PROVE  /\ UNCHANGED <<cfg, pipeLast, pipeCursor, quitting, runs, pipeBuffer, preloaded, scored,
                            stored, announced>>
             /\ pipePc' \in Stages /\ todo' \subseteq Items /\ sideRows' \subseteq Items
  BY <1>4, <1>a DEF TakePair
<1>5. CASE SaveScores \/ PublishScores \/ SaveRings \/ SaveVectors \/ EnqueueWebhooks \/ SubmitOnChain
  BY <1>5, <1>a DEF SaveScores, PublishScores, SaveRings, SaveVectors, EnqueueWebhooks, SubmitOnChain
<1>6. CASE ReadTrade
  <2>1. pipeLast' \in 0 .. MaxItem /\ pipeLast + 1 \in Items
    BY <1>6, <1>a, PipeAssumption DEF ReadTrade, Items
  <2> QED BY <1>6, <1>a, <2>1 DEF ReadTrade
<1>7. CASE Interrupt \/ FlushScores \/ FlushStores \/ FlushPublishes \/ FlushCursor
  BY <1>7, <1>a DEF Interrupt, FlushScores, FlushStores, FlushPublishes, FlushCursor
<1>8. CASE UNCHANGED pipeVars
  BY <1>8, <1>a DEF pipeVars
<1>9. ASSUME NEW p \in Items, LoadPair(p) \/ AsyncLoadPair(p)
      PROVE  /\ UNCHANGED <<cfg, pipeLast, pipeCursor, quitting, runs, pipeBuffer, preloaded, scored,
                            stored, announced>>
             /\ pipePc' \in Stages /\ todo' \subseteq Items /\ sideRows' \subseteq Items
  <2>1. PICK b \in BOOLEAN : TakePair(p, b)
    BY <1>9 DEF LoadPair, AsyncLoadPair
  <2> QED BY <1>4, <2>1
<1> QED BY <1>a, <1>1, <1>2, <1>3, <1>5, <1>6, <1>7, <1>8, <1>9 DEF PipeNext

LEMMA PipeNextInv == PipeInv /\ [PipeNext]_pipeVars => PipeInv'
<1> SUFFICES ASSUME PipeInv, [PipeNext]_pipeVars PROVE PipeInv'
  OBVIOUS
<1>a. /\ bus \cup hooks \cup chain \subseteq stored /\ 1 .. pipeCursor \subseteq stored /\ chain \subseteq high
      /\ 1 .. pipeLast \subseteq stored \cup pipeBuffer
      /\ pipePc \in {"fstore", "fpublish", "fcursor"} => scored = pipeBuffer
      /\ pipePc \in {"publish", "rings", "vectors", "hooks", "chain", "fpublish", "fcursor"} =>
            scored \subseteq stored
  BY DEF PipeInv, NothingAheadOfStorage, ReadIsHeld, StoredFirst
<1>b. PipeTypeOK'
  BY PipeNextTyped DEF PipeInv
<1>c. SUFFICES NothingAheadOfStorage' /\ ReadIsHeld' /\ StoredFirst'
  BY <1>b DEF PipeInv
<1> USE DEF cfg, memory, announced, Goto, NothingAheadOfStorage, ReadIsHeld, StoredFirst
<1>1. CASE PipeStart
  <2>1. pipePc' \in {"preload", "read", "load"}
    BY <1>1 DEF PipeStart
  <2> QED BY <1>1, <1>a, <2>1 DEF PipeStart
<1>2. CASE Dies \/ AfterLoop \/ AsyncSaveRings
  BY <1>2, <1>a DEF Dies, AfterLoop, AsyncSaveRings
<1>3. CASE Preload \/ ScorePair \/ AsyncScorePair
  BY <1>3, <1>a DEF Preload, PairScored, ScorePair, AsyncScorePair
<1>4. ASSUME NEW p \in Items, LoadPair(p) \/ AsyncLoadPair(p)
      PROVE  NothingAheadOfStorage' /\ ReadIsHeld' /\ StoredFirst'
  <2>1. PICK b \in BOOLEAN : TakePair(p, b)
    BY <1>4 DEF LoadPair, AsyncLoadPair
  <2> QED BY <1>a, <2>1 DEF TakePair
<1>5. CASE SaveScores \/ PublishScores \/ SaveRings \/ SaveVectors
  BY <1>5, <1>a DEF SaveScores, PublishScores, SaveRings, SaveVectors
<1>6. CASE EnqueueWebhooks
  BY <1>6, <1>a DEF EnqueueWebhooks
<1>7. CASE SubmitOnChain
  BY <1>7, <1>a DEF SubmitOnChain
<1>8. CASE ReadTrade
  <2>1. pipeLast \in Nat
    BY DEF PipeInv, PipeTypeOK
  <2>2. 1 .. pipeLast' = 1 .. pipeLast \cup {pipeLast + 1}
    BY <1>8, <2>1 DEF ReadTrade
  <2>3. pipePc' \in {"flush", "read"}
    BY <1>8 DEF ReadTrade
  <2> QED BY <1>8, <1>a, <2>2, <2>3 DEF ReadTrade
<1>9. CASE Interrupt \/ FlushScores \/ FlushStores
  BY <1>9, <1>a DEF Interrupt, FlushScores, FlushStores
<1>10. CASE FlushPublishes \/ FlushCursor
  BY <1>10, <1>a DEF FlushPublishes, FlushCursor
<1>11. CASE UNCHANGED pipeVars
  BY <1>11, <1>a DEF pipeVars
<1> QED BY <1>1, <1>2, <1>3, <1>4, <1>5, <1>6, <1>7, <1>8, <1>9, <1>10, <1>11 DEF PipeNext

(* run_pipeline.py: for any number of items and runs, of any kind, and       *)
(* wherever each of them ends, nothing is announced that was not stored, and *)
(* the cursor file is never past what was stored.                            *)
THEOREM StorageAlwaysFirst == PipeSpec => [](PipeTypeOK /\ NothingAheadOfStorage)
<1>1. PipeInit => PipeInv
  <2> SUFFICES ASSUME PipeInit PROVE PipeInv
    OBVIOUS
  <2>1. high \subseteq Items
    BY DEF PipeInit
  <2>2. 0 \in 0 .. MaxItem /\ 0 \in 0 .. MaxRuns /\ 1 .. 0 = {}
    BY PipeAssumption
  <2>3. PipeTypeOK
    BY <2>1, <2>2, PipeTyped DEF PipeInit, Stages
  <2> QED BY <2>2, <2>3 DEF PipeInit, PipeInv, NothingAheadOfStorage, ReadIsHeld, StoredFirst
<1>2. PipeInv => PipeTypeOK /\ NothingAheadOfStorage
  BY DEF PipeInv
<1> QED BY <1>1, <1>2, PipeNextInv, PTL DEF PipeSpec

(* No event is lost on its way, in the three systems together: the replay    *)
(* buffer (replay_buffer.py), the dead letters of the bus (event_bus.py) and *)
(* the pipeline's storage and cursor (run_pipeline.py).                      *)
THEOREM EventsAlwaysKept == BusSpec /\ ReplaySpec /\ PipeSpec => []EventsAreKept
<1>1. /\ BusTypeOK /\ FailedEventKept /\ ReplayTypeOK /\ DisorderMeansLate
      /\ PipeTypeOK /\ NothingAheadOfStorage
      => EventsAreKept
  BY DEF EventsAreKept
<1> QED BY <1>1, FailedEventsAlwaysKept, DisorderAlwaysLate, StorageAlwaysFirst, PTL
=============================================================================
