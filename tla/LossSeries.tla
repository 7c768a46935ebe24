------------------------------ MODULE LossSeries ------------------------------
(***************************************************************************)
(* What makes the breaker trip: record_trade_result and check_drawdown of   *)
(* risk/circuit_breaker.py over the Redis list of recent losses, the trade  *)
(* journal and the cached seven-day peak of the equity.  The lock itself is *)
(* reduced to the hour it ends; CircuitBreaker models it.                   *)
(*                                                                         *)
(* The list is read, then written: two results interleave there.  The clock *)
(* counts hours.                                                            *)
(***************************************************************************)
EXTENDS Integers, Sequences, FiniteSets, SequencesExt, FiniteSetsExt, Functions

CONSTANTS
  Workers,      \* processes that record results
  Results,      \* profits and losses of a trade
  Capital,      \* equity at the start
  MAGNITUDE,    \* LOSS_MAGNITUDE_PCT
  DAILY,        \* DAILY_LOSS_CAP_PCT
  DRAWDOWN,     \* DRAWDOWN_FROM_PEAK_PCT
  COUNT,        \* CONSECUTIVE_LOSS_COUNT
  WINDOW,       \* CONSECUTIVE_LOSS_WINDOW_HOURS
  PEAK_WINDOW,  \* DRAWDOWN_PEAK_WINDOW_DAYS, in hours
  PEAK_TTL,     \* hours the peak stays cached
  LOCK,         \* hours of a lock
  HoursOfDay,   \* hours until a day ends
  MaxHour,      \* bound: the last hour
  MaxClosed     \* bound: trades

\* Results and the capital are whole; a window of losses, a lock and a day last.
ASSUME SeriesAssumption ==
  /\ Results \subseteq Int /\ Capital \in Int
  /\ {WINDOW, LOCK, HoursOfDay} \subseteq Nat \ {0} /\ PEAK_WINDOW \in Nat

VARIABLES
  hour,       \* hours since the start
  series,     \* circuit_breaker:recent_losses: [at, trade], the hour and, here only, whose loss
  recording,  \* what each worker is recording
  lockEnds,   \* the hour the newest lock ends
  trades,     \* trade_journal: [entry, exit, pnl], in the order of the exits
  peak,       \* circuit_breaker:7day_peak: [value, until], NoPeak when missing
  skipped,    \* history: trades that are not to be listed: it was locked, or they locked it
  raced       \* history: trades recorded while another was between read and write too

lossVars == <<hour, series, recording, lockEnds, trades, peak, skipped, raced>>

NoPeak == [value |-> 0, until |-> -1]
Nothing == [at |-> "idle", read |-> <<>>, trade |-> 0]

SeriesInit ==
  /\ hour = 0 /\ series = <<>> /\ lockEnds = 0 /\ trades = <<>> /\ peak = NoPeak
  /\ recording = [w \in Workers |-> Nothing]
  /\ skipped = {} /\ raced = {}

\* What the trades with these places in the journal made.
Made(places) == SumFunctionOnSet([k \in DOMAIN trades |-> trades[k].pnl], places)
Equity == Capital + Made(DOMAIN trades)
Locked == hour < lockEnds
Lock(until) == lockEnds' = Max({lockEnds, until})
Midnight == ((hour \div HoursOfDay) + 1) * HoursOfDay

\* net_pnl of the trades entered today.
Today == Made({k \in DOMAIN trades : trades[k].entry >= Midnight - HoursOfDay})

-----------------------------------------------------------------------------
(* record_trade_result *)

CheckDaily ==
  IF Equity > 0 /\ 100 * Today < -DAILY * Equity THEN Lock(Midnight) ELSE UNCHANGED lockEnds

\* A trade entered at an earlier hour closes; its result is in the journal when it is
\* recorded.  While locked nothing is, a large loss locks at once, a loss reads the list.
Close(w) ==
  /\ recording[w].at = "idle" /\ Len(trades) < MaxClosed
  /\ \E pnl \in Results, entry \in {0, hour} :
       trades' = Append(trades, [entry |-> entry, exit |-> hour, pnl |-> pnl])
  /\ recording' = [recording EXCEPT ![w] = [Nothing EXCEPT !.at = "record", !.trade = Len(trades')]]
  /\ UNCHANGED <<hour, series, lockEnds, peak, skipped, raced>>

Result(w) == trades[recording[w].trade].pnl
Skip(w) == skipped' = skipped \cup {recording[w].trade}

Ignored(w) ==
  /\ recording[w].at = "record" /\ Locked
  /\ recording' = [recording EXCEPT ![w] = Nothing]
  /\ Skip(w)
  /\ UNCHANGED <<hour, series, lockEnds, trades, peak, raced>>

Large(pnl) == 100 * pnl < -MAGNITUDE * Equity

RecordLarge(w) ==
  /\ recording[w].at = "record" /\ ~Locked /\ Large(Result(w))
  /\ Lock(hour + LOCK)
  /\ recording' = [recording EXCEPT ![w] = Nothing]
  /\ Skip(w)
  /\ UNCHANGED <<hour, series, trades, peak, raced>>

RecordGain(w) ==
  /\ recording[w].at = "record" /\ ~Locked /\ Result(w) >= 0
  /\ CheckDaily
  /\ recording' = [recording EXCEPT ![w] = Nothing]
  /\ UNCHANGED <<hour, series, trades, peak, skipped, raced>>

ReadSeries(w) ==
  /\ recording[w].at = "record" /\ ~Locked
  /\ Result(w) < 0 /\ ~Large(Result(w))
  /\ recording' = [recording EXCEPT ![w].at = "read", ![w].read = series]
  /\ LET others == {v \in Workers : recording[v].at = "read"}
     IN raced' = IF others = {} THEN raced
                 ELSE raced \cup {recording[v].trade : v \in others \cup {w}}
  /\ UNCHANGED <<hour, series, lockEnds, trades, peak, skipped>>

\* The losses of a list after an hour.
Later(list, after) ==
  LET keep(kept, loss) == IF loss.at > after THEN Append(kept, loss) ELSE kept
  IN FoldLeft(keep, <<>>, list)

\* Mutant: what has left the window is all that is kept.
Recent_Older(list) == SelectSeq(list, LAMBDA loss : loss.at <= hour - WINDOW)
Recent(list) == Later(list, hour - WINDOW)

\* Mutant: the list is written without what was read.
WriteSeries_Own(w) ==
  /\ recording[w].at = "read"
  /\ series' = <<[at |-> hour, trade |-> recording[w].trade]>>
  /\ CheckDaily
  /\ recording' = [recording EXCEPT ![w] = Nothing]
  /\ UNCHANGED <<hour, trades, peak, skipped, raced>>
WriteSeries(w) ==
  /\ recording[w].at = "read"
  /\ series' = Append(Recent(recording[w].read), [at |-> hour, trade |-> recording[w].trade])
  /\ IF Len(series') >= COUNT THEN Lock(hour + LOCK) ELSE CheckDaily
  /\ recording' = [recording EXCEPT ![w] = Nothing]
  /\ UNCHANGED <<hour, trades, peak, skipped, raced>>

-----------------------------------------------------------------------------
(* check_drawdown *)

InWindow == {k \in DOMAIN trades : trades[k].exit >= hour - PEAK_WINDOW}

\* Mutant: the equity before the first trade of the window is forgotten.
ComputedPeak_AfterOnly ==
  Max({Equity} \cup {Equity - Made({k \in InWindow : k > i}) : i \in InWindow})
\* Backwards from the current equity, the equity before each trade of the window.
ComputedPeak ==
  Max({Equity} \cup {Equity - Made({k \in InWindow : k >= i}) : i \in InWindow})

Peak == IF peak # NoPeak THEN peak.value ELSE ComputedPeak

CheckDrawdown ==
  /\ ~Locked
  /\ peak' = IF peak # NoPeak THEN peak ELSE [value |-> Peak, until |-> hour + PEAK_TTL]
  /\ IF Peak > 0 /\ 100 * (Peak - Equity) > DRAWDOWN * Peak THEN Lock(hour + LOCK) ELSE UNCHANGED lockEnds
  /\ UNCHANGED <<hour, series, recording, trades, skipped, raced>>

\* An hour passes between calls; the cached peak expires, and the list when no loss was
\* written for a window.
HourPasses ==
  /\ hour < MaxHour
  /\ \A w \in Workers : recording[w].at = "idle"
  /\ hour' = hour + 1
  /\ peak' = IF peak.until < hour' THEN NoPeak ELSE peak
  /\ series' = IF series # <<>> /\ Last(series).at + WINDOW < hour' THEN <<>> ELSE series
  /\ UNCHANGED <<recording, lockEnds, trades, skipped, raced>>

SeriesNext ==
  \/ \E w \in Workers :
       \/ Close(w)
       \/ Ignored(w)
       \/ RecordLarge(w)
       \/ RecordGain(w)
       \/ ReadSeries(w)
       \/ WriteSeries(w)
  \/ CheckDrawdown
  \/ HourPasses

SeriesSpec == SeriesInit /\ [][SeriesNext]_lossVars

-----------------------------------------------------------------------------
(* Properties *)

\* The trades whose loss belongs on the list: they lost, within the window, their result has
\* been recorded, and the breaker was not locked then, nor by them.
Due == {k \in DOMAIN trades \ skipped :
          /\ trades[k].pnl < 0 /\ trades[k].exit > hour - WINDOW
          /\ \A w \in Workers : recording[w].trade # k}
Listed == {loss.trade : loss \in Range(Recent(series))}

\* The losses counted are those of the journal: whatever expires and however results follow
\* one another, every loss that is due is on the list, except one whose recording overlapped
\* another's and was overwritten; a race loses none but its own.  Nothing else is on it, and
\* nothing twice, so the loss that makes COUNT is the one that locks.
SeriesComplete ==
  /\ Due \ raced \subseteq Listed /\ Listed \subseteq Due
  /\ \A i, j \in DOMAIN Recent(series) : Recent(series)[i].trade = Recent(series)[j].trade => i = j

\* The equity at every moment of the window: what held at its beginning, and what each
\* trade since made of it.
EquityAfter(i) == Capital + Made(1..i)
High ==
  Max({EquityAfter(i) : i \in {i \in 0..Len(trades) :
         i = Len(trades) \/ trades[i + 1].exit >= hour - PEAK_WINDOW}})

\* A check that computes the peak locks exactly when the equity lies more than the
\* limit below the highest it has been in seven days; a cached peak is at most an hour old.
DrawdownSeen ==
  [][CheckDrawdown /\ peak = NoPeak /\ High > 0 =>
       (lockEnds' > hour <=> 100 * (High - Equity) > DRAWDOWN * High)]_lossVars
=============================================================================
