----------------------- MODULE MCInstitutionalArchive -----------------------
(* A week in small: dates 1, 2, 4 and 5 are weekdays and 3 is not. Stock 1   *)
(* is bought every day, stock 2 around the date that may be missing, stock 3 *)
(* trades on the other market.                                               *)
EXTENDS InstitutionalArchive

mcMarkets == <<"TW", "TWO">>
mcSymbols == [m \in {"TW", "TWO"} |-> IF m = "TW" THEN {1, 2} ELSE {3}]
Nets(f, t) == [foreign |-> f, trust |-> t]
TW(a, b) == [s \in {1, 2} |-> IF s = 1 THEN a ELSE b]
TWO(c) == [s \in {3} |-> c]
\* The last date's first report is corrected: stock 1 was sold.
mcReport == [d \in 1..5 |-> [m \in {"TW", "TWO"} |->
    CASE d = 3 -> <<>>
      [] m = "TWO" /\ d # 3 -> <<TWO(Nets(IF d = 4 THEN -1 ELSE 2, 1))>>
      [] m = "TW" /\ d = 5 -> <<TW(Nets(3, 0), Nets(1, 0)), TW(Nets(-1, 0), Nets(1, 0))>>
      [] OTHER -> <<TW(Nets(1, 1), Nets(IF d = 4 THEN -2 ELSE 2, 1))>>]]
mcKnown == [d \in 1..5 |-> [m \in {"TW", "TWO"} |->
    IF d = 3 \/ (d = 5 /\ m = "TWO") THEN 0 ELSE 1]]
mcAsked == <<3, 4, 5>>

\* A refresh and its readers, with and without a gap in the archive; a refresh
\* and a backfill of an archive that loses rows; the same two calls of an archive
\* that lacks a holiday.
mcReaders(archived) ==
    [called |-> {"refresh"}, reading |-> TRUE, archived |-> archived, closed |-> {},
     maxAttempts |-> 2, maxDamage |-> 1]
mcBackfill ==
    [called |-> Jobs, reading |-> FALSE, archived |-> {1, 2, 4}, closed |-> {},
     maxAttempts |-> 1, maxDamage |-> 1]
mcHoliday ==
    [called |-> Jobs, reading |-> FALSE, archived |-> {1, 2}, closed |-> {4},
     maxAttempts |-> 1, maxDamage |-> 0]
mcSettings == {mcReaders({1, 2}), mcReaders({1, 2, 4}), mcBackfill, mcHoliday}
=============================================================================
