------------------------------ MODULE HostHistory ------------------------------
(***************************************************************************)
(* The hourly history of the host's counters (gf_0007): the collector      *)
(* inserts a raw row a minute and calls rollup_and_prune, which folds the  *)
(* raw rows into hourly buckets and drops the rows past the retention.     *)
(* Either call may fail or be left out while the collector does not run,   *)
(* and a counter that cannot be read is written NULL (collect.sh:10-11).   *)
(***************************************************************************)
EXTENDS Integers, FiniteSets, FiniteSetsExt

CONSTANTS
    Hour,          \* an hour in ticks of the collector
    RawKept,       \* raw_retention
    HourlyKept,    \* hourly_retention
    Unread,        \* NULL: the counter could not be read
    LastTick       \* bound: when time ends

ASSUME HistoryAssumption ==
    /\ Hour \in Nat \ {0}
    /\ RawKept \in Nat /\ HourlyKept \in Nat /\ LastTick \in Nat
    /\ Unread \notin Nat

VARIABLES
    now,       \* the time, in ticks
    counter,   \* one of the host's counters, net_tx_bytes for one
    raw,       \* host_sample
    hourly,    \* host_hourly: the buckets there are, by their hour
    rolled     \* history: every row that a call of rollup_and_prune has met

historyVars == <<now, counter, raw, hourly, rolled>>

Hours == 0 .. LastTick \div Hour
HourOf(row) == row.at \div Hour
InHour(h, rows) == {row \in rows : HourOf(row) = h}

HistoryInit ==
    /\ now = 0 /\ counter = 0
    /\ raw = {} /\ rolled = {}
    /\ hourly = <<>>

-----------------------------------------------------------------------------

\* The machine counts on, or starts again at zero.
TimePasses ==
    /\ now < LastTick
    /\ now' = now + 1
    /\ counter' \in {counter, counter + 1, 0}
    /\ UNCHANGED <<raw, hourly, rolled>>

\* The row is inserted whether or not the counter could be read.
Sample ==
    /\ \A row \in raw : row.at < now
    /\ \E value \in {counter, Unread} : raw' = raw \cup {[at |-> now, value |-> value]}
    /\ UNCHANGED <<now, counter, hourly, rolled>>

\* lag() over the rows in order of time.
Lag(row, rows) ==
    LET before == {other \in rows : other.at < row.at} IN
    {other \in before : \A third \in before : third.at <= other.at}

\* The difference of two counters is one only if both were read.
Rises(last, row) ==
    last.value # Unread /\ row.value # Unread /\ last.value < row.value

\* A mutant of Delta: a counter that could not be read is taken for zero.
DeltaFromZero(row, rows) ==
    IF \E last \in Lag(row, rows) : Rises(last, row)
    THEN row.value - (CHOOSE last \in Lag(row, rows) : TRUE).value
    ELSE IF row.value # Unread /\ \E last \in Lag(row, rows) : last.value = Unread
         THEN row.value ELSE 0

\* GREATEST(x - lag(x), 0): the first row has no delta, a counter that was reset counts for
\* nothing, and GREATEST passes over a NULL, so neither does one that was not read, in its
\* own row or in the next.
Delta(row, rows) ==
    IF \E last \in Lag(row, rows) : Rises(last, row)
    THEN row.value - (CHOOSE last \in Lag(row, rows) : TRUE).value ELSE 0

\* SUM over a column, which has one value for each row.
Total(column) == MapThenSumSet(LAMBDA pair : pair[2], column)

Bucket(h, rows) ==
    [samples |-> Cardinality(InHour(h, rows)),
     sum |-> Total({<<row, Delta(row, rows)>> : row \in InHour(h, rows)})]

Expired(h) == h * Hour < now - HourlyKept

\* A mutant of Folded: what is past its retention is dropped first.
FoldedLate ==
    LET left == {row \in raw : row.at >= now - RawKept} IN
    [h \in {h \in Hours : ~Expired(h) /\ (InHour(h, left) # {} \/ h \in DOMAIN hourly)} |->
        IF InHour(h, left) # {} THEN Bucket(h, left) ELSE hourly[h]]

\* Every hour that still has a raw row is written anew, and no bucket outlives its retention.
Folded ==
    [h \in {h \in Hours : ~Expired(h) /\ (InHour(h, raw) # {} \/ h \in DOMAIN hourly)} |->
        IF InHour(h, raw) # {} THEN Bucket(h, raw) ELSE hourly[h]]

RollupAndPrune ==
    /\ hourly' = Folded
    /\ raw' = {row \in raw : row.at >= now - RawKept}
    /\ rolled' = rolled \cup raw
    /\ UNCHANGED <<now, counter>>

HistoryNext == TimePasses \/ Sample \/ RollupAndPrune

HistorySpec == HistoryInit /\ [][HistoryNext]_historyVars

-----------------------------------------------------------------------------
(* Properties.                                                             *)

\* The raw rows of an hour are still there, and the one its first delta starts from.
StillRaw(h) ==
    /\ InHour(h, rolled) \subseteq raw
    /\ \A row \in InHour(h, rolled) : Lag(row, rolled) \subseteq raw

\* What a counter went up in an hour from row to row, wherever two neighbours were read.
Traffic(h, rows) ==
    Total({<<step[2], step[2].value - step[1].value>> :
             step \in {step \in rows \X InHour(h, rows) :
                /\ step[1].at < step[2].at /\ Rises(step[1], step[2])
                /\ \A row \in rows : row.at <= step[1].at \/ row.at >= step[2].at}})

\* As long as no row of an hour is pruned its bucket is what all rows ever taken make of it,
\* at whichever calls it was folded and over gaps, resets and the turn of the hour: it counts
\* the rows, and the rises between neighbours that were both read. "A month's sum is the
\* monthly total" (gf_0007:136-137) as far as that goes; what passes beside a row that was
\* not read is in no bucket, and the first row of an hour counts from the last of the hour
\* before, which "a window LAG within the hour" (gf_0007:174) does not say.
BucketsExactWhileRaw ==
    \A h \in Hours :
        InHour(h, rolled) # {} /\ StillRaw(h) /\ h \in DOMAIN hourly =>
            hourly[h] = [samples |-> Cardinality(InHour(h, rolled)), sum |-> Traffic(h, rolled)]

\* No row is pruned that was not folded into a bucket, however late the call comes, and a
\* bucket outlives its rows (the order of the statements of rollup_and_prune).
HistoryHasEveryHour ==
    \A h \in Hours :
        InHour(h, rolled) # {} => h \in DOMAIN hourly \/ h * Hour < now - HourlyKept

\* "closed buckets are idempotent" (gf_0007:173-174), "so the hourly history outlives them"
\* (gf_0007:16): a call that meets no new row of an hour leaves its bucket as it is, until it
\* expires as a whole.
ClosedBucketsKept ==
    [][\A h \in Hours :
         InHour(h, rolled') = InHour(h, rolled) /\ h \in DOMAIN hourly' =>
             h \in DOMAIN hourly /\ hourly'[h] = hourly[h]]_historyVars
=============================================================================
